---- MODULE Spec2Model ----
(***************************************************************************)
(* Rebalance engine and backtest ledger of the trading system.             *)
(*                                                                         *)
(* Numbers.  The code computes in floating point.  The model computes in   *)
(* exact rationals [n, d] (d > 0, lowest terms).  Quantities are counted   *)
(* in the code's own order resolution, 1e-6 share (round(delta_qty, 6)),   *)
(* so a quantity of 30 below is 30e-6 share, cash is in 1e-6 currency      *)
(* units and the 1e-6 suppression threshold is exactly one unit.  The 1e-9 *)
(* tolerances of the code only absorb floating-point error; on exact       *)
(* rationals they are comparisons without tolerance.                       *)
(***************************************************************************)
EXTENDS Integers, Sequences, FiniteSets, TLC

(***************************************************************************)
(* Bounds of the model.                                                    *)
(***************************************************************************)
Lot == 10
MaxQty == 2
MaxCash == 1
MaxPrice == 1
MaxScore == 2

Universe == <<"AAA", "BBB", "CCC">>
Symbols == {Universe[i] : i \in 1..Len(Universe)}
SymIdx(s) == CHOOSE i \in 1..Len(Universe) : Universe[i] = s
SymbolLt(a, b) == SymIdx(a) < SymIdx(b)

(***************************************************************************)
(* Exact rational arithmetic standing for the code's float arithmetic.     *)
(***************************************************************************)
Abs(x) == IF x < 0 THEN -x ELSE x

RECURSIVE GCD(_, _)
GCD(a, b) == IF b = 0 THEN a ELSE GCD(b, a % b)

Rat(n, d) ==
    LET s == IF d < 0 THEN -1 ELSE 1
        g == GCD(Abs(n), Abs(d))
    IN  [n |-> (s * n) \div g, d |-> (s * d) \div g]

RInt(i) == [n |-> i, d |-> 1]
Zero == RInt(0)
One == RInt(1)
Half == Rat(1, 2)
RAdd(a, b) == Rat(a.n * b.d + b.n * a.d, a.d * b.d)
RSub(a, b) == Rat(a.n * b.d - b.n * a.d, a.d * b.d)
RMul(a, b) == Rat(a.n * b.n, a.d * b.d)
RDiv(a, b) == Rat(a.n * b.d, a.d * b.n)
RNeg(a) == [n |-> -a.n, d |-> a.d]
RAbs(a) == [n |-> Abs(a.n), d |-> a.d]
RLt(a, b) == a.n * b.d < b.n * a.d
RLe(a, b) == a.n * b.d <= b.n * a.d
RMax(a, b) == IF RLt(a, b) THEN b ELSE a
RFloor(a) == a.n \div a.d

\* Python round(): to the nearest unit, an exact tie to the even neighbour.
round(a) ==
    LET q == a.n \div a.d
        r == a.n % a.d
    IN  IF 2 * r < a.d THEN q
        ELSE IF 2 * r > a.d THEN q + 1
        ELSE IF q % 2 = 0 THEN q ELSE q + 1

RECURSIVE RSum(_)
RSum(seq) == IF seq = <<>> THEN Zero ELSE RAdd(Head(seq), RSum(Tail(seq)))

\* seq with the element at position i removed (list.pop(i)).
RemoveAt(seq, i) == [k \in 1..(Len(seq) - 1) |-> IF k < i THEN seq[k] ELSE seq[k + 1]]

\* seq[:k]
Take(seq, k) == IF k >= Len(seq) THEN seq ELSE SubSeq(seq, 1, k)

(***************************************************************************)
(* Calendar.  A date is its ordinal from Monday 2024-01-01 (ordinal 0);    *)
(* MonthEnds are the ordinals of the last calendar day of January to June  *)
(* 2024.                                                                   *)
(***************************************************************************)
MonthEnds == {30, 59, 90, 120, 151, 181}
weekday(day) == day % 7
IsBusinessDay(day) == weekday(day) <= 4

\* pandas BMonthEnd: the last business day of the month of `day`.
BMonthEnd(day) ==
    LET monthEnd == CHOOSE e \in MonthEnds :
                        e >= day /\ \A o \in MonthEnds : o >= day => e <= o
    IN  CHOOSE b \in (monthEnd - 2)..monthEnd :
            IsBusinessDay(b) /\ \A l \in (b + 1)..monthEnd : ~IsBusinessDay(l)

\* as_of + BMonthEnd(0): as_of itself when it is a business month end, else
\* the next business month end after it.
RollToBMonthEnd(day) ==
    IF day <= BMonthEnd(day) THEN BMonthEnd(day) ELSE BMonthEnd(day + 3)

SupportedCadence(cadence) == cadence \in {"monthly", "weekly"}

is_rebalance_day(as_of, cadence) ==
    IF cadence = "monthly" THEN as_of = RollToBMonthEnd(as_of)
    ELSE cadence = "weekly" /\ weekday(as_of) = 4

(***************************************************************************)
(* Rebalance engine: pure helpers of rebalance/__init__.py.                *)
(*                                                                         *)
(* positions : function from the held symbols to their quantity            *)
(* signals   : function from the symbols with a row today to               *)
(*             [signal, rank_score]                                        *)
(* prices    : function from every symbol to its latest curated close;     *)
(*             0 is a close the loader rejects                             *)
(***************************************************************************)
Note(text, symbol) == [text |-> text, symbol |-> symbol]

RECURSIVE SortSymbols(_)
SortSymbols(S) ==
    IF S = {} THEN <<>>
    ELSE LET first == CHOOSE s \in S : \A o \in S : o = s \/ SymbolLt(s, o)
         IN  <<first>> \o SortSymbols(S \ {first})

\* key (rank_score descending, symbol ascending)
RankBefore(a, b) ==
    \/ a.rank_score > b.rank_score
    \/ a.rank_score = b.rank_score /\ SymbolLt(a.symbol, b.symbol)

RECURSIVE SortByRank(_)
SortByRank(S) ==
    IF S = {} THEN <<>>
    ELSE LET first == CHOOSE r \in S : \A o \in S : o = r \/ RankBefore(r, o)
         IN  <<first>> \o SortByRank(S \ {first})

SeqRange(seq) == {seq[i] : i \in 1..Len(seq)}

prepare_signals(signals) ==
    SortByRank({[symbol |-> s, signal |-> signals[s].signal,
                 rank_score |-> signals[s].rank_score] : s \in DOMAIN signals})

\* load_price raises for a close that is NaN or <= 0.
PriceLoadFails(prices, symbols) == \E s \in symbols : prices[s] <= 0

load_price_map(prices, symbols) == [s \in symbols |-> prices[s]]

\* Candidate filter without the non-positive-score rule.
KeepCandidateAnyScore(row, held, price_map, equal_weight) ==
    /\ row.signal # "EXIT"
    /\ row.symbol \in DOMAIN price_map
    /\ equal_weight \in BOOLEAN
    /\ held \subseteq Symbols

KeepCandidate(row, held, price_map, equal_weight) ==
    /\ row.signal # "EXIT"
    /\ row.symbol \in DOMAIN price_map
    /\ ~(~equal_weight /\ row.rank_score <= 0 /\ row.symbol \notin held)

collect_candidates(frame, positions, price_map, equal_weight) ==
    LET held == DOMAIN positions
        kept == SelectSeq(frame, LAMBDA row : KeepCandidate(row, held, price_map, equal_weight))
        made == {[symbol |-> kept[i].symbol,
                  signal |-> kept[i].signal,
                  rank_score |-> kept[i].rank_score,
                  price |-> price_map[kept[i].symbol],
                  rationale |-> IF kept[i].signal = "BUY" THEN "BUY signal"
                                ELSE "Maintain position",
                  is_existing |-> kept[i].symbol \in held] : i \in 1..Len(kept)}
    IN  SortByRank(made)

collect_exit_symbols(frame, positions) ==
    {row.symbol : row \in {r \in SeqRange(frame) :
                               r.signal = "EXIT" /\ r.symbol \in DOMAIN positions}}

\* The 1e-9 slack of the capacity and min-weight comparisons.
Tolerance == Rat(1, 1000000000)

\* A weight in [0, 1] counted in steps of half a Tolerance, the common
\* resolution of the weights in use (products of such weights would leave
\* the integers).
Fixed(weight) == weight.n * ((2 * Tolerance.d) \div weight.d)

max_positions_by_min_weight(available_weight, min_weight, max_positions) ==
    IF max_positions <= 0 THEN 0
    ELSE IF RLe(min_weight, Zero) THEN max_positions
    ELSE LET allowed == (Fixed(available_weight) + Fixed(Tolerance))
                            \div Fixed(min_weight)
         IN  IF allowed < max_positions
             THEN (IF allowed < 0 THEN 0 ELSE allowed)
             ELSE max_positions

\* Result: [selected, notes]; pops the last (lowest-ranked) candidate until
\* the equal split reaches min_weight.
RECURSIVE enforce_min_weight(_, _, _, _)
enforce_min_weight(selected, available_weight, min_weight, notes) ==
    IF selected = <<>> \/ RLe(min_weight, Zero)
    THEN [selected |-> selected, notes |-> notes]
    ELSE LET count == Len(selected)
         IN  IF (Fixed(available_weight) + count * Fixed(Tolerance)) \div count
                    >= Fixed(min_weight)
             THEN [selected |-> selected, notes |-> notes]
             ELSE enforce_min_weight(
                      SubSeq(selected, 1, Len(selected) - 1),
                      available_weight, min_weight,
                      Append(notes, Note("Removed to satisfy min_weight",
                                         selected[Len(selected)].symbol)))

PositiveScore(candidate) ==
    IF candidate.rank_score > 0 THEN candidate.rank_score ELSE 0

RECURSIVE SumScores(_)
SumScores(selected) ==
    IF selected = <<>> THEN 0
    ELSE PositiveScore(Head(selected)) + SumScores(Tail(selected))

\* Fault variant of compute_weights: the score-proportional weights are not
\* divided by the total score.
compute_weights_unnormalised(selected, available_weight, equal_weight) ==
    IF selected = <<>> THEN <<>>
    ELSE IF equal_weight \/ Len(selected) = 1 \/ SumScores(selected) <= 0
    THEN [i \in 1..Len(selected) |-> RDiv(available_weight, RInt(Len(selected)))]
    ELSE [i \in 1..Len(selected) |->
             RMul(available_weight, RInt(PositiveScore(selected[i])))]

\* Allocation that ignores the equal_weight flag.
compute_weights_by_score_only(selected, available_weight, equal_weight) ==
    IF selected = <<>> THEN <<>>
    ELSE IF (equal_weight /\ ~equal_weight) \/ Len(selected) = 1
            \/ SumScores(selected) <= 0
    THEN [i \in 1..Len(selected) |-> RDiv(available_weight, RInt(Len(selected)))]
    ELSE [i \in 1..Len(selected) |->
             RDiv(RMul(available_weight, RInt(PositiveScore(selected[i]))),
                  RInt(SumScores(selected)))]

compute_weights(selected, available_weight, equal_weight) ==
    IF selected = <<>> THEN <<>>
    ELSE IF equal_weight \/ Len(selected) = 1 \/ SumScores(selected) <= 0
    THEN [i \in 1..Len(selected) |-> RDiv(available_weight, RInt(Len(selected)))]
    ELSE [i \in 1..Len(selected) |->
             RDiv(RMul(available_weight, RInt(PositiveScore(selected[i]))),
                  RInt(SumScores(selected)))]

(***************************************************************************)
(* Orders and turnover.                                                    *)
(***************************************************************************)
QtyScale == 1000000
NotionalScale == 100

\* round(x, 2) of an amount given in 1e-6 currency units, in cents.
RoundNotional(amount) == round(RDiv(amount, RInt(QtyScale \div NotionalScale)))

RECURSIVE PositionsValue(_, _, _)
PositionsValue(symbols, positions, price_map) ==
    IF symbols = <<>> THEN 0
    ELSE positions[Head(symbols)] * price_map[Head(symbols)]
         + PositionsValue(Tail(symbols), positions, price_map)

TotalValue(positions, holdings_cash, price_map) ==
    RAdd(holdings_cash,
         RInt(PositionsValue(SortSymbols(DOMAIN positions), positions, price_map)))

TargetWeightOf(targets, symbol) ==
    IF \E i \in 1..Len(targets) : targets[i].symbol = symbol
    THEN targets[CHOOSE i \in 1..Len(targets) : targets[i].symbol = symbol].target_weight
    ELSE Zero

CurrentQty(positions, symbol) ==
    IF symbol \in DOMAIN positions THEN positions[symbol] ELSE 0

CurrentWeight(positions, price_map, total_value, symbol) ==
    RDiv(RInt(CurrentQty(positions, symbol) * price_map[symbol]), total_value)

\* delta_qty = target_weight * total_value / price - current_qty
DeltaQty(positions, price_map, total_value, targets, symbol) ==
    RSub(RDiv(RMul(TargetWeightOf(targets, symbol), total_value),
              RInt(price_map[symbol])),
         RInt(CurrentQty(positions, symbol)))

OrderSide(delta_qty) == IF RLt(Zero, delta_qty) THEN "BUY" ELSE "SELL"

OrderQuantity(delta_qty) == round(delta_qty)

MakeOrder(symbol, delta_qty, price) ==
    [symbol |-> symbol,
     side |-> OrderSide(delta_qty),
     quantity |-> OrderQuantity(delta_qty),
     notional |-> RoundNotional(RMul(RAbs(delta_qty), RInt(price)))]

\* Result: [raised, orders, turnover].
orders_and_turnover(current_positions, holdings_cash, price_map, targets) ==
    LET total_value == TotalValue(current_positions, holdings_cash, price_map)
        symbols == SortSymbols(
            (DOMAIN current_positions \cup {targets[i].symbol : i \in 1..Len(targets)})
            \cap DOMAIN price_map)
        delta(symbol) == DeltaQty(current_positions, price_map, total_value, targets, symbol)
        moved == SelectSeq(symbols, LAMBDA symbol : ~RLt(RAbs(delta(symbol)), One))
        drift == [i \in 1..Len(symbols) |->
                     RAbs(RSub(TargetWeightOf(targets, symbols[i]),
                               CurrentWeight(current_positions, price_map,
                                             total_value, symbols[i])))]
    IN  IF RLe(total_value, Zero)
        THEN [raised |-> TRUE, orders |-> <<>>, turnover |-> Zero]
        ELSE [raised |-> FALSE,
              orders |-> [i \in 1..Len(moved) |->
                             MakeOrder(moved[i], delta(moved[i]), price_map[moved[i]])],
              turnover |-> RMul(RSum(drift), Half)]

\* key (target_weight descending, symbol ascending)
TargetBefore(a, b) ==
    \/ RLt(b.target_weight, a.target_weight)
    \/ a.target_weight = b.target_weight /\ SymbolLt(a.symbol, b.symbol)

RECURSIVE SortTargets(_)
SortTargets(S) ==
    IF S = {} THEN <<>>
    ELSE LET first == CHOOSE t \in S : \A o \in S : o = t \/ TargetBefore(t, o)
         IN  <<first>> \o SortTargets(S \ {first})

AllocationMode(weights, equal_weight) ==
    IF equal_weight THEN "equal-weight"
    ELSE IF \E i \in 2..Len(weights) : weights[i] # weights[1]
         THEN "score-weight" ELSE "equal-weight"

\* Result: the _Proposal [status, targets, orders, turnover, notes];
\* status "RAISED" stands for the ValueError of a non-positive total value.
build_proposal(selected, exit_symbols, current_positions, holdings_cash, price_map, available_weight, equal_weight) ==
    LET weights == compute_weights(selected, available_weight, equal_weight)
        allocated == {[symbol |-> selected[i].symbol,
                       target_weight |-> weights[i],
                       rationale |-> selected[i].rationale] : i \in 1..Len(selected)}
        exits == {[symbol |-> s, target_weight |-> Zero,
                   rationale |-> "Exit signal triggered"] : s \in exit_symbols}
        targets == SortTargets(allocated \cup exits)
        notes == IF selected # <<>>
                 THEN <<Note("Selected symbols with "
                                 \o AllocationMode(weights, equal_weight)
                                 \o " allocation", "")>>
                 ELSE <<Note("No candidates selected for allocation", "")>>
        built == orders_and_turnover(current_positions, holdings_cash, price_map, targets)
    IN  IF built.raised
        THEN [status |-> "RAISED", targets |-> <<>>, orders |-> <<>>,
              turnover |-> Zero, notes |-> <<>>]
        ELSE [status |-> IF targets # <<>> \/ built.orders # <<>>
                         THEN "REBALANCE" ELSE "NO_CANDIDATES",
              targets |-> targets,
              orders |-> built.orders,
              turnover |-> built.turnover,
              notes |-> notes]

(***************************************************************************)
(* Turnover cap enforcement.                                               *)
(***************************************************************************)
\* Fault variant of WithinCap: the cap is read as a percentage.
WithinCapAsPercent(turnover, cap) == RLe(turnover, RMul(cap, RInt(100)))

WithinCap(turnover, cap) == RLe(turnover, cap)

ExceedsCap(turnover, cap) == RLt(cap, turnover)

\* Fault variant of Droppable: held candidates may be dropped too.
DroppableHeldToo(candidate) == candidate.symbol # ""

\* Only a candidate that is not currently held may be dropped.
Droppable(candidate) == ~candidate.is_existing

\* Fault variant of discard_proposal: the status is set but the over-cap
\* proposal is handed back.
discard_status_only(final_proposal) ==
    [final_proposal EXCEPT !.status = "TURNOVER_LIMIT",
                           !.notes = Append(@, Note("Turnover cap prevented adjustments", ""))]

\* The proposal returned when even the final rebuild exceeds the cap.
discard_proposal(final_proposal) ==
    [status |-> "TURNOVER_LIMIT",
     targets |-> <<>>,
     orders |-> <<>>,
     turnover |-> Zero,
     notes |-> Append(final_proposal.notes,
                      Note("Turnover cap prevented adjustments", ""))]

\* The for-loop of _reduce_turnover from position index (1-based) downwards,
\* then the final attempt.  Result: [proposal, notes], notes being the
\* caller's list the loop appends to.
RECURSIVE reduce_turnover_loop(_, _, _, _, _, _, _, _, _, _)
reduce_turnover_loop(mutable_selected, index, exit_symbols, current_positions, holdings_cash, price_map, available_weight, equal_weight, cap, notes) ==
    LET proposal == build_proposal(mutable_selected, exit_symbols, current_positions,
                                   holdings_cash, price_map, available_weight,
                                   equal_weight)
    IN  IF index < 1
        THEN IF ExceedsCap(proposal.turnover, cap)
             THEN [proposal |-> discard_proposal(proposal), notes |-> notes]
             ELSE [proposal |-> [proposal EXCEPT !.notes =
                                    Append(@, Note("Turnover adjusted within cap", ""))],
                   notes |-> notes]
        ELSE IF WithinCap(proposal.turnover, cap)
        THEN [proposal |-> [proposal EXCEPT !.notes =
                               Append(@, Note("Turnover within cap", ""))],
              notes |-> notes]
        ELSE IF ~Droppable(mutable_selected[index])
        THEN reduce_turnover_loop(mutable_selected, index - 1, exit_symbols,
                                  current_positions, holdings_cash, price_map,
                                  available_weight, equal_weight, cap, notes)
        ELSE reduce_turnover_loop(RemoveAt(mutable_selected, index), index - 1,
                                  exit_symbols, current_positions, holdings_cash,
                                  price_map, available_weight, equal_weight, cap,
                                  Append(notes, Note("Removed to satisfy turnover cap",
                                                     mutable_selected[index].symbol)))

reduce_turnover(selected, exit_symbols, current_positions, holdings_cash, price_map, available_weight, equal_weight, cap, notes) ==
    reduce_turnover_loop(selected, Len(selected), exit_symbols, current_positions,
                         holdings_cash, price_map, available_weight, equal_weight,
                         cap, notes)

\* Fault variant of exit_orders: without capacity nothing is sold.
exit_orders_blocked(exit_symbols, current_positions, price_map) ==
    SelectSeq(<<>>, LAMBDA order : order.symbol \in exit_symbols)

exit_orders(exit_symbols, current_positions, price_map) ==
    LET sellable == SelectSeq(SortSymbols(exit_symbols),
                              LAMBDA symbol : /\ symbol \in DOMAIN current_positions
                                              /\ current_positions[symbol] # 0
                                              /\ symbol \in DOMAIN price_map)
    IN  [i \in 1..Len(sellable) |->
            [symbol |-> sellable[i],
             side |-> "SELL",
             quantity |-> round(RInt(current_positions[sellable[i]])),
             notional |-> RoundNotional(RInt(Abs(current_positions[sellable[i]])
                                             * price_map[sellable[i]]))]]

(***************************************************************************)
(* RebalanceEngine.evaluate.  cfg is the engine's configuration            *)
(* [cadence, max_positions, equal_weight, min_weight, cash_buffer,         *)
(* turnover_cap]; turnover_cap is <<>> when no cap is configured and       *)
(* <<cap>> otherwise.  A raised exception is the status "RAISED".          *)
(***************************************************************************)
Result(status, turnover, targets, orders, notes) ==
    [status |-> status, turnover |-> turnover, targets |-> targets,
     orders |-> orders, notes |-> notes]

Raised == Result("RAISED", Zero, <<>>, <<>>, <<>>)

\* Fault variant of CadenceGateOpen: force does not skip the cadence check.
CadenceGateIgnoringForce(as_of, cadence, force) ==
    force \in BOOLEAN /\ is_rebalance_day(as_of, cadence)

\* The gate of evaluate: the cadence check is skipped when force is set.
CadenceGateOpen(as_of, cadence, force) == force \/ is_rebalance_day(as_of, cadence)

AvailableWeight(cfg) == RMax(Zero, RSub(One, cfg.cash_buffer))

MaxAllowed(cfg) ==
    max_positions_by_min_weight(AvailableWeight(cfg), cfg.min_weight, cfg.max_positions)

\* Symbols whose price evaluate loads: today's rows and the current holdings.
NeededSymbols(holdings, signals) == DOMAIN signals \cup DOMAIN holdings.positions

Candidates(cfg, holdings, signals, prices) ==
    collect_candidates(prepare_signals(signals), holdings.positions,
                       load_price_map(prices, NeededSymbols(holdings, signals)),
                       cfg.equal_weight)

ExitSymbols(holdings, signals) ==
    collect_exit_symbols(prepare_signals(signals), holdings.positions)

\* [selected, notes] after truncation to the position cap and min-weight
\* enforcement.
Selection(cfg, holdings, signals, prices) ==
    enforce_min_weight(Take(Candidates(cfg, holdings, signals, prices), MaxAllowed(cfg)),
                       AvailableWeight(cfg), cfg.min_weight, <<>>)

\* The proposal built for a given selection.
ProposalFor(selected, cfg, holdings, signals, prices) ==
    build_proposal(selected, ExitSymbols(holdings, signals), holdings.positions,
                   holdings.cash,
                   load_price_map(prices, NeededSymbols(holdings, signals)),
                   AvailableWeight(cfg), cfg.equal_weight)

evaluate(cfg, as_of, holdings, signals, prices, force) ==
    LET frame == prepare_signals(signals)
        current_positions == holdings.positions
        price_map == load_price_map(prices, NeededSymbols(holdings, signals))
        exit_symbols == ExitSymbols(holdings, signals)
        enforced == Selection(cfg, holdings, signals, prices)
        selected == enforced.selected
        proposal == ProposalFor(selected, cfg, holdings, signals, prices)
        reduced == reduce_turnover(selected, exit_symbols, current_positions,
                                   holdings.cash, price_map, AvailableWeight(cfg),
                                   cfg.equal_weight, cfg.turnover_cap[1],
                                   enforced.notes)
        final == IF cfg.turnover_cap # <<>>
                    /\ ExceedsCap(proposal.turnover, cfg.turnover_cap[1])
                 THEN reduced
                 ELSE [proposal |-> proposal, notes |-> enforced.notes]
    IN  IF ~force /\ ~SupportedCadence(cfg.cadence) THEN Raised
        ELSE IF ~CadenceGateOpen(as_of, cfg.cadence, force)
        THEN Result("NO_REBALANCE", Zero, <<>>, <<>>,
                    <<Note("Cadence not met", "")>>)
        ELSE IF frame = <<>>
        THEN Result("NO_CANDIDATES", Zero, <<>>, <<>>,
                    <<Note("No signals available for rebalance date", "")>>)
        ELSE IF PriceLoadFails(prices, NeededSymbols(holdings, signals)) THEN Raised
        ELSE IF MaxAllowed(cfg) = 0
        THEN Result("NO_CAPACITY", Zero, <<>>,
                    exit_orders(exit_symbols, current_positions, price_map),
                    <<Note("Cash buffer and min_weight configuration leave no capacity for targets", "")>>)
        ELSE IF proposal.status = "RAISED" THEN Raised
        ELSE Result(final.proposal.status, final.proposal.turnover,
                    final.proposal.targets, final.proposal.orders,
                    final.notes \o final.proposal.notes)

(***************************************************************************)
(* Backtest ledger: BacktestEngine._execute_orders.  The portfolio state   *)
(* is [cash, positions]; an executed trade is logged with the ledger       *)
(* entries of its symbol just before and just after it.                    *)
(***************************************************************************)
RoundScale == 100

\* _round(value, 8) of a value counted in 1e-6 units: to 1/100 of a unit.
round8(value) == Rat(round(RMul(value, RInt(RoundScale))), RoundScale)

HeldQty(state, symbol) ==
    IF symbol \in DOMAIN state.positions THEN state.positions[symbol] ELSE 0

FillPrice(side, price, slippage_pct) ==
    IF side = "BUY" THEN RMul(RInt(price), RAdd(One, slippage_pct))
    ELSE RMul(RInt(price), RSub(One, slippage_pct))

SlippageCost(side, price, fill_price, quantity) ==
    IF side = "BUY" THEN RMul(RSub(fill_price, RInt(price)), RInt(quantity))
    ELSE RMul(RSub(RInt(price), fill_price), RInt(quantity))

\* positions after adding `change` to the entry of `symbol`; only the SELL
\* branch deletes an entry that has become zero.
SetQty(positions, symbol, qty, prune) ==
    IF prune /\ qty = 0
    THEN [s \in DOMAIN positions \ {symbol} |-> positions[s]]
    ELSE [s \in DOMAIN positions \cup {symbol} |->
             IF s = symbol THEN qty ELSE positions[s]]

\* One iteration of the order loop.  Result: [state, trade].
execute_order(state, order, price, slippage_pct, commission) ==
    LET quantity == order.quantity
        fill_price == FillPrice(order.side, price, slippage_pct)
        gross == RMul(RInt(quantity), fill_price)
        cash == IF order.side = "BUY"
                THEN RSub(RSub(state.cash, gross), commission)
                ELSE RSub(RAdd(state.cash, gross), commission)
        qty == IF order.side = "BUY"
               THEN HeldQty(state, order.symbol) + quantity
               ELSE HeldQty(state, order.symbol) - quantity
        after == [cash |-> cash,
                  positions |-> SetQty(state.positions, order.symbol, qty,
                                       order.side = "SELL")]
    IN  [state |-> after,
         trade |-> [symbol |-> order.symbol,
                    side |-> order.side,
                    quantity |-> quantity,
                    price |-> price,
                    fill_price |-> round8(fill_price),
                    commission |-> round8(commission),
                    slippage_cost |-> round8(SlippageCost(order.side, price,
                                                          fill_price, quantity)),
                    cash_before |-> state.cash,
                    cash_after |-> cash,
                    qty_before |-> HeldQty(state, order.symbol),
                    qty_after |-> qty]]

\* The loop over the orders sorted by symbol.  Result: [state, trades].
RECURSIVE execute_orders(_, _, _, _, _, _)
execute_orders(state, orders, price_map, slippage_pct, commission, trades) ==
    IF orders = <<>> THEN [state |-> state, trades |-> trades]
    ELSE IF Head(orders).quantity = 0
    THEN execute_orders(state, Tail(orders), price_map, slippage_pct, commission, trades)
    ELSE LET step == execute_order(state, Head(orders), price_map[Head(orders).symbol],
                                   slippage_pct, commission)
         IN  execute_orders(step.state, Tail(orders), price_map, slippage_pct,
                            commission, Append(trades, step.trade))

RECURSIVE SortOrders(_)
SortOrders(S) ==
    IF S = {} THEN <<>>
    ELSE LET first == CHOOSE o \in S : \A x \in S : x = o \/ SymbolLt(o.symbol, x.symbol)
         IN  <<first>> \o SortOrders(S \ {first})

\* _PortfolioState.snapshot: the positions of non-zero quantity and the cash.
snapshot(state) ==
    [positions |-> [s \in {x \in DOMAIN state.positions : state.positions[x] # 0}
                        |-> state.positions[s]],
     cash |-> state.cash]

portfolio_equity(state, price_map) ==
    RAdd(state.cash,
         RInt(PositionsValue(SortSymbols(DOMAIN state.positions), state.positions,
                             price_map)))

\* The next date of pandas bdate_range after a business day.
\* _round of a ratio: the number of 1e-8 steps nearest to it (ties to even),
\* by long division so that no intermediate product leaves the integers.
RatioDigits == 8

RECURSIVE LongDivision(_, _, _, _)
LongDivision(remainder, divisor, digits, quotient) ==
    IF digits = 0 THEN <<quotient, remainder>>
    ELSE LongDivision((remainder * 10) % divisor, divisor, digits - 1,
                      quotient * 10 + (remainder * 10) \div divisor)

round_ratio(ratio) ==
    LET divided == LongDivision(Abs(ratio.n) % ratio.d, ratio.d, RatioDigits,
                                Abs(ratio.n) \div ratio.d)
        steps == divided[1]
        rest == divided[2]
        nearest == IF 2 * rest < ratio.d THEN steps
                   ELSE IF 2 * rest > ratio.d THEN steps + 1
                   ELSE IF steps % 2 = 0 THEN steps ELSE steps + 1
    IN  IF ratio.n < 0 THEN -nearest ELSE nearest

\* daily_return of the i-th equity record.
daily_return(curve, i) ==
    IF i = 1 THEN Zero ELSE RSub(RDiv(curve[i], curve[i - 1]), One)

RECURSIVE peak_equity(_, _, _)
peak_equity(curve, initial_cash, i) ==
    IF i = 0 THEN initial_cash
    ELSE RMax(peak_equity(curve, initial_cash, i - 1), curve[i])

\* drawdown of the i-th equity record.
drawdown(curve, initial_cash, i) ==
    IF RLt(Zero, peak_equity(curve, initial_cash, i))
    THEN RSub(RDiv(curve[i], peak_equity(curve, initial_cash, i)), One)
    ELSE Zero

RECURSIVE MinOf(_)
MinOf(values) ==
    IF Len(values) = 1 THEN values[1]
    ELSE IF values[1] <= MinOf(Tail(values)) THEN values[1] ELSE MinOf(Tail(values))

\* _compute_metrics without cagr, volatility, sharpe and sortino (roots and
\* fractional powers of the same equity records).  Ratios are counted in
\* 1e-8 steps.
compute_metrics(curve, running, config) ==
    LET trading_days == Len(curve)
        final_equity == IF trading_days > 0 THEN round8(curve[trading_days])
                        ELSE config.initial_cash
        returns == [i \in 1..(trading_days - 1) |->
                       round_ratio(daily_return(curve, i + 1))]
        positive_days == Cardinality({i \in DOMAIN returns : returns[i] > 0})
    IN  [trading_days |-> trading_days,
         initial_cash |-> round8(config.initial_cash),
         final_equity |-> round8(final_equity),
         total_return |->
             IF config.initial_cash # Zero
             THEN round_ratio(RSub(RDiv(final_equity, config.initial_cash), One))
             ELSE 0,
         max_drawdown |->
             IF trading_days > 0
             THEN MinOf([i \in 1..trading_days |->
                            round_ratio(drawdown(curve, config.initial_cash, i))])
             ELSE 0,
         hit_rate |->
             IF Len(returns) > 0 THEN round_ratio(Rat(positive_days, Len(returns)))
             ELSE 0,
         turnover_total |-> round_ratio(running.turnover_total),
         turnover_average |->
             IF running.rebalance_events # 0
             THEN round_ratio(RDiv(running.turnover_total,
                                   RInt(running.rebalance_events)))
             ELSE 0,
         rebalance_events |-> running.rebalance_events,
         trades_executed |-> running.trades_executed]

\* A run that computes no metrics when nothing is to be written.
backtest_result_unmeasured(flag, metrics, equity_frame) ==
    [metrics |-> IF flag THEN <<>> ELSE metrics,
     equity_curve |-> equity_frame,
     manifest |-> IF flag THEN {} ELSE {"metrics", "equity_curve", "trades", "manifest"},
     output_dir |-> ~flag]

\* The BacktestResult of a run and the artefacts it wrote (no chart).
backtest_result(flag, metrics, equity_frame) ==
    [metrics |-> metrics,
     equity_curve |-> equity_frame,
     manifest |-> IF flag THEN {} ELSE {"metrics", "equity_curve", "trades", "manifest"},
     output_dir |-> ~flag]

NextBusinessDay(day) == IF weekday(day) = 4 THEN day + 3 ELSE day + 1

(***************************************************************************)
(* State.                                                                  *)
(***************************************************************************)
VARIABLES
    pc,           \* evaluate call: "ready", "done"; backtest run: "running",
                  \* "finished", "failed"
    cfg,          \* configuration of the RebalanceEngine
    as_of,        \* date of the (next) evaluate call
    force,        \* force flag of the last evaluate call
    holdings,     \* HoldingsSnapshot [positions, cash] of the last call
    signals,      \* signals table (rows of as_of) of the last call
    prices,       \* curated close per symbol on the date of the last call
    result,       \* RebalanceResult of the last call
    backtest_cfg, \* [initial_cash, slippage_pct, commission_per_trade]
    run_end,      \* last date of the backtest window
    state,        \* _PortfolioState [cash, positions] of the run
    day_trades,   \* trades executed on the last simulated day
    equity_curve, \* equity after each simulated day
    totals,       \* [turnover_total, rebalance_events, trades_executed]
    dry_run,      \* the dry_run argument of the run
    report,       \* the BacktestResult the run returned
    twin,         \* the run of the same engine over the same window and
                  \* inputs with the other value of dry_run
    frame,        \* the caller's signals DataFrame: rows of any date, any order
    first_call,   \* inputs and result of the first of several evaluate calls
    rule,         \* the expression string handed to RuleEvaluator, as parsed
    rule_frame,   \* [rows, columns] of the frame the rule is evaluated on
    rule_outcome, \* "ok" or the error RuleEvaluator.evaluate raised
    chain_rule,   \* a chained comparison, as parsed
    chain_frame,  \* rows of the frame the comparison is evaluated on
    chain_values, \* the series of the comparison and of its pairwise form
    curated,      \* curated dataset per universe ticker: [present, rows]
    strategy,     \* [entry, exit, rank] of the strategy configuration
    window,       \* the window argument of StrategyEngine.evaluate (0: None)
    strategy_result, \* the StrategyResult of the last evaluation
    risk_cfg,     \* [crash_threshold, drawdown_threshold, market_filter] of
                  \* the risk configuration
    risk_result,  \* the RiskResult of the last evaluation
    pipeline,     \* arguments and surroundings of the pipeline run
    runner,       \* [results, error]: the results the runner holds, and the
                  \* step error in flight
    steps,        \* the PipelineStep list of the run
    manifest,     \* the ManifestBuilder: [steps, finalized, success]
    run_outcome   \* what run() returned or raised

vars == <<pc, cfg, as_of, force, holdings, signals, prices, result,
          backtest_cfg, run_end, state, day_trades, equity_curve, totals,
          dry_run, report, twin, frame, first_call, rule, rule_frame, rule_outcome,
          chain_rule, chain_frame, chain_values,
          curated, strategy, window, strategy_result, risk_cfg, risk_result,
          pipeline, runner, steps, manifest, run_outcome>>

call_vars == <<cfg, as_of, force, holdings, signals, prices>>
run_vars == <<backtest_cfg, run_end, state, day_trades, equity_curve, totals,
              dry_run, report, twin>>
rule_vars == <<rule, rule_frame, rule_outcome>>
caller_vars == <<frame, first_call>>
chain_vars == <<chain_rule, chain_frame, chain_values>>
strategy_vars == <<curated, strategy, window, strategy_result>>
risk_vars == <<risk_cfg, risk_result>>
pipeline_vars == <<pipeline, runner, steps, manifest, run_outcome>>
service_vars == <<chain_vars, strategy_vars, risk_vars, pipeline_vars>>

NoResult == Result("NONE", Zero, <<>>, <<>>, <<>>)
NoPositions == [s \in {} |-> 0]
NoTotals == [turnover_total |-> Zero, rebalance_events |-> 0, trades_executed |-> 0]
NoReport == [metrics |-> <<>>, equity_curve |-> <<>>, manifest |-> {}, output_dir |-> FALSE]

\* The locals of a run that has not simulated a day yet.
StartOfRun(config) ==
    [state |-> [cash |-> config.initial_cash, positions |-> NoPositions],
     day_trades |-> <<>>, equity_curve |-> <<>>, totals |-> NoTotals,
     result |-> NoResult, failed |-> FALSE, report |-> NoReport]

(***************************************************************************)
(* Input domains of a single evaluate call.                                *)
(***************************************************************************)
EngineConfig(cadence, max_positions, equal_weight, min_weight, cash_buffer, cap) ==
    [cadence |-> cadence, max_positions |-> max_positions,
     equal_weight |-> equal_weight, min_weight |-> min_weight,
     cash_buffer |-> cash_buffer, turnover_cap |-> cap]

\* RebalanceEngine.__init__ on the configured cadence string: strip and
\* lower-case it, and reject it only when nothing is left.
RawCadences == {"monthly", " Weekly ", "daily", "", "  "}

normalize_cadence(raw) ==
    CASE raw = " Weekly " -> "weekly"
      [] raw = "  " -> ""
      [] OTHER -> raw

constructor_accepts(raw) == normalize_cadence(raw) # ""

\* The cadences of the engines that can be constructed.
EngineCadences == {normalize_cadence(raw) : raw \in {r \in RawCadences : constructor_accepts(r)}}

\* [max_positions, min_weight, cash_buffer, turnover_cap]
Profiles ==
    { <<3, Zero, Rat(1, 10), <<Rat(1, 4)>> >>,
      <<3, Zero, Zero, <<Rat(1, 2)>> >>,
      <<2, Rat(2, 5), Rat(1, 10), <<>> >>,
      <<2, Zero, Zero, <<Zero>> >>,
      <<0, Zero, Rat(1, 10), <<>> >>,
      <<1, One, Rat(1, 10), <<Rat(1, 4)>> >> }

EngineConfigs ==
    {EngineConfig("monthly", p[1], equal_weight, p[2], p[3], p[4]) :
         p \in Profiles, equal_weight \in BOOLEAN}

\* Quantities and cash come in lots of Lot units of 1e-6.
PositionBooks(symbols) ==
    UNION {[held -> {Lot * k : k \in 1..MaxQty}] : held \in SUBSET symbols}

Holdings(symbols) ==
    [positions : PositionBooks(symbols), cash : {RInt(Lot * c) : c \in 0..MaxCash}]

\* A BUY row of any score, a HOLD row of score 1, an EXIT row (its score is
\* never read).
SignalRows ==
    [signal : {"BUY"}, rank_score : 0..MaxScore]
        \cup {[signal |-> "HOLD", rank_score |-> 1], [signal |-> "EXIT", rank_score |-> 0]}

SignalTables(symbols) == UNION {[listed -> SignalRows] : listed \in SUBSET symbols}

\* Thursday 2024-05-30 and Friday 2024-05-31 (a month end), the dates of the
\* test suite; GateDates are the five weeks from 2024-04-27 to 2024-05-31.
HitDate == {151}
GateDates == {d \in 0..151 : d >= 117}

\* No sequence of calls on one engine is in progress.
IdleCaller ==
    /\ frame = <<>>
    /\ first_call = <<>>

\* No comparison is being evaluated.
IdleChain ==
    /\ chain_rule = [kind |-> "none"]
    /\ chain_frame = <<>>
    /\ chain_values = <<>>

\* No strategy is being evaluated.
IdleStrategy ==
    /\ curated = <<>>
    /\ strategy = <<>>
    /\ window = 0
    /\ strategy_result = <<>>

\* No risk evaluation is in progress.
IdleRisk ==
    /\ risk_cfg = <<>>
    /\ risk_result = <<>>

\* No pipeline is running.
IdlePipeline ==
    /\ pipeline = <<>>
    /\ runner = <<>>
    /\ steps = <<>>
    /\ manifest = <<>>
    /\ run_outcome = <<>>

IdleServices ==
    /\ IdleChain
    /\ IdleStrategy
    /\ IdleRisk
    /\ IdlePipeline

\* No rule evaluator is in use.
IdleRule ==
    /\ rule = [text |-> "", tree |-> [kind |-> "none"]]
    /\ rule_frame = [rows |-> 0, columns |-> {}]
    /\ rule_outcome = "none"

IdleRun ==
    /\ backtest_cfg = [initial_cash |-> Zero, slippage_pct |-> Zero,
                       commission_per_trade |-> Zero]
    /\ run_end = 0
    /\ state = [cash |-> Zero, positions |-> NoPositions]
    /\ day_trades = <<>>
    /\ equity_curve = <<>>
    /\ totals = NoTotals
    /\ dry_run = FALSE
    /\ report = NoReport
    /\ twin = StartOfRun(backtest_cfg)

\* Calls that go past the cadence gate, over every configuration.
InitProposals ==
    /\ cfg \in EngineConfigs
    /\ as_of \in HitDate
    /\ force = FALSE
    /\ holdings \in Holdings(Symbols)
    /\ signals \in SignalTables(Symbols)
    /\ prices \in [Symbols -> 1..MaxPrice]

\* Calls on every date, forced and not, under every cadence an engine can be
\* constructed with, with and without usable prices.
InitGate ==
    /\ cfg \in {EngineConfig(cadence, 3, TRUE, Zero, Rat(1, 10), <<Rat(1, 4)>>) :
                    cadence \in EngineCadences}
    /\ as_of \in GateDates
    /\ force \in BOOLEAN
    /\ holdings \in Holdings({"AAA"})
    /\ signals \in {t \in SignalTables({"BBB"}) : \A s \in DOMAIN t : t[s].rank_score = 1}
    /\ prices \in [Symbols -> 0..MaxPrice]

\* Calls of an engine whose min_weight lies half a Tolerance above its
\* available weight.
InitTolerance ==
    /\ cfg \in {EngineConfig("monthly", 1, equal_weight,
                              Rat(1800000001, 2000000000), Rat(1, 10), <<>>) :
                    equal_weight \in BOOLEAN}
    /\ as_of \in HitDate
    /\ force = FALSE
    /\ holdings \in Holdings({"AAA"})
    /\ signals \in SignalTables({"AAA", "BBB"})
    /\ prices = [s \in Symbols |-> 1]

InitEval ==
    /\ pc = "ready"
    /\ result = NoResult
    /\ IdleRun
    /\ IdleRule
    /\ IdleCaller
    /\ IdleServices
    /\ InitGate \/ InitProposals \/ InitTolerance

Evaluate ==
    /\ pc = "ready"
    /\ result' = evaluate(cfg, as_of, holdings, signals, prices, force)
    /\ pc' = "done"
    /\ UNCHANGED call_vars
    /\ UNCHANGED run_vars
    /\ UNCHANGED rule_vars
    /\ UNCHANGED caller_vars
    /\ UNCHANGED service_vars

NextEval == Evaluate

SpecEval == InitEval /\ [][NextEval]_vars

(***************************************************************************)
(* BacktestEngine.run: one step per trading day of the window, then the    *)
(* end of the loop.  Each day the strategy result is an arbitrary market:  *)
(* a close and a signal row for every universe symbol.                     *)
(***************************************************************************)
MaxClose == 2
RunDays == 2

BtUniverse == {"AAA", "BBB"}
BtStarts == {149, 150}
BtSlippages == {Zero, Rat(1, 10)}
BtCommissions == {Zero, One}

Markets ==
    [close : [BtUniverse -> 1..MaxClose],
     signal : [BtUniverse -> {"BUY", "HOLD", "EXIT"}]]

RECURSIVE NthBusinessDay(_, _)
NthBusinessDay(day, n) ==
    IF n <= 1 THEN day ELSE NthBusinessDay(NextBusinessDay(day), n - 1)

\* StrategyResult.frame of a market: one row per universe symbol.
StrategyFrame(market) ==
    [s \in BtUniverse |-> [signal |-> market.signal[s], rank_score |-> 1]]

\* _extract_prices: the close of every evaluated symbol.
extract_prices(market) == [s \in BtUniverse |-> market.close[s]]

\* The curated closes the rebalance engine loads for itself on that day.
CuratedCloses(market) ==
    [s \in Symbols |-> IF s \in BtUniverse THEN market.close[s] ELSE 0]

InitRun ==
    /\ pc = "running"
    /\ cfg = EngineConfig("monthly", 2, TRUE, Zero, Rat(1, 10), <<>>)
    /\ backtest_cfg \in [initial_cash : {RInt(10 * Lot)},
                         slippage_pct : BtSlippages,
                         commission_per_trade : BtCommissions]
    /\ as_of \in BtStarts
    /\ run_end = NthBusinessDay(as_of, RunDays)
    /\ force = FALSE
    /\ holdings = [positions |-> NoPositions, cash |-> Zero]
    /\ signals = NoPositions
    /\ prices = [s \in Symbols |-> 0]
    /\ result = NoResult
    /\ state = [cash |-> backtest_cfg.initial_cash, positions |-> NoPositions]
    /\ day_trades = <<>>
    /\ equity_curve = <<>>
    /\ totals = NoTotals
    /\ dry_run \in BOOLEAN
    /\ report = NoReport
    /\ twin = StartOfRun(backtest_cfg)
    /\ IdleRule
    /\ IdleCaller
    /\ IdleServices

\* The trades of one day: _execute_orders when the result carries orders.
execute_day(portfolio, rebalance_result, price_map, config) ==
    IF rebalance_result.orders # <<>>
    THEN execute_orders(portfolio, SortOrders(SeqRange(rebalance_result.orders)),
                        price_map, config.slippage_pct,
                        config.commission_per_trade, <<>>)
    ELSE [state |-> portfolio, trades |-> <<>>]

\* The running totals after a day.
add_totals(running, rebalance_result, trades) ==
    IF rebalance_result.orders # <<>>
    THEN [turnover_total |-> RAdd(running.turnover_total, rebalance_result.turnover),
          rebalance_events |-> running.rebalance_events + 1,
          trades_executed |-> running.trades_executed + Len(trades)]
    ELSE running

\* The locals of a run after one day that did not raise.
settle_day(run, rebalance_result, executed, price_map) ==
    [run EXCEPT !.result = rebalance_result,
                !.state = executed.state,
                !.day_trades = executed.trades,
                !.equity_curve = Append(run.equity_curve,
                                        portfolio_equity(executed.state, price_map)),
                !.totals = add_totals(run.totals, rebalance_result, executed.trades)]

\* The rest of a loop iteration once the rebalance engine has answered.
after_rebalance(run, rebalance_result, price_map, config) ==
    IF ~(DOMAIN run.state.positions \subseteq DOMAIN price_map)
          \/ rebalance_result.status = "RAISED"
    THEN [run EXCEPT !.failed = TRUE, !.result = rebalance_result]
    ELSE CHOOSE settled \in
             {settle_day(run, rebalance_result, executed, price_map) :
                  executed \in {execute_day(run.state, rebalance_result, price_map,
                                            config)}} : TRUE

\* A loop that forces the rebalance on every day.
force_every_day(portfolio) == TRUE

\* force_rebalance = not state.positions
force_rebalance(portfolio) == DOMAIN portfolio.positions = {}

\* The locals of the run.
RunLocals ==
    [state |-> state, day_trades |-> day_trades, equity_curve |-> equity_curve,
     totals |-> totals, result |-> result, failed |-> FALSE, report |-> report]

\* One iteration of the loop over trading_days, on the locals of a run.
run_day(engine_cfg, config, day, run, market) ==
    CHOOSE after \in
        {after_rebalance(run, rebalance_result, extract_prices(market), config) :
             rebalance_result \in
                 {evaluate(engine_cfg, day, snapshot(run.state), StrategyFrame(market),
                           CuratedCloses(market), force_rebalance(run.state))}} : TRUE

\* One iteration of the loop over trading_days, for the run and its twin.
RunDay ==
    /\ pc = "running"
    /\ as_of <= run_end
    /\ \E market \in Markets :
        /\ force' = force_rebalance(state)
        /\ holdings' = snapshot(state)
        /\ signals' = StrategyFrame(market)
        /\ prices' = CuratedCloses(market)
        /\ \E after \in {[which \in {"run", "twin"} |->
                             run_day(cfg, backtest_cfg, as_of,
                                     IF which = "run" THEN RunLocals ELSE twin,
                                     market)]} :
               /\ result' = after["run"].result
               /\ twin' = after["twin"]
               /\ IF after["run"].failed
                  THEN /\ pc' = "failed"
                       /\ UNCHANGED <<as_of, state, day_trades, equity_curve, totals>>
                  ELSE /\ pc' = "running"
                       /\ as_of' = NextBusinessDay(as_of)
                       /\ state' = after["run"].state
                       /\ day_trades' = after["run"].day_trades
                       /\ equity_curve' = after["run"].equity_curve
                       /\ totals' = after["run"].totals
    /\ UNCHANGED <<cfg, backtest_cfg, run_end, dry_run, report>>
    /\ UNCHANGED rule_vars
    /\ UNCHANGED caller_vars
    /\ UNCHANGED service_vars

\* The loop is over: the run returns its BacktestResult.
FinishRun ==
    /\ pc = "running"
    /\ as_of > run_end
    /\ pc' = "finished"
    /\ report' = backtest_result(dry_run,
                                 compute_metrics(equity_curve, totals, backtest_cfg),
                                 equity_curve)
    /\ twin' = [twin EXCEPT !.report =
                    backtest_result(~dry_run,
                                    compute_metrics(twin.equity_curve, twin.totals,
                                                    backtest_cfg),
                                    twin.equity_curve)]
    /\ UNCHANGED call_vars
    /\ UNCHANGED <<result, backtest_cfg, run_end, state, day_trades, equity_curve, totals,
                   dry_run>>
    /\ UNCHANGED rule_vars
    /\ UNCHANGED caller_vars
    /\ UNCHANGED service_vars

Next == RunDay \/ FinishRun

Spec == InitRun /\ [][Next]_vars

(***************************************************************************)
(* Several evaluate calls on one engine.  The caller keeps one signals     *)
(* DataFrame (rows <<date, symbol, signal, rank_score>> in any order) and  *)
(* hands it to every call; the curated closes are the same on both dates.  *)
(***************************************************************************)
CallDates == {150, 151}

FrameRows ==
    [date : CallDates, symbol : {"AAA", "BBB"}, signal : {"BUY", "EXIT"},
     rank_score : {1}]

CallerFrames ==
    {rows \in [1..2 -> FrameRows] : rows[1].symbol # rows[2].symbol}

CallInputs ==
    [as_of : CallDates, force : BOOLEAN,
     holdings : {[positions |-> NoPositions, cash |-> RInt(Lot)],
                 [positions |-> [s \in {"AAA"} |-> Lot], cash |-> Zero]}]

\* The working frame of _prepare_signals: the rows of as_of, sorted.
prepare_frame(caller_frame, day) ==
    SortByRank({r \in SeqRange(caller_frame) : r.date = day})

\* The signals table of a working frame.
SignalTable(working) ==
    [s \in {working[i].symbol : i \in 1..Len(working)} |->
        LET row == CHOOSE r \in SeqRange(working) : r.symbol = s
        IN  [signal |-> row.signal, rank_score |-> row.rank_score]]

\* _prepare_signals filtering and sorting the caller's frame itself.
frame_prepared_in_place(caller_frame, day) == prepare_frame(caller_frame, day)

\* The caller's frame after a call: _prepare_signals works on frame.copy().
frame_after_call(caller_frame, day) == caller_frame

InitTwice ==
    /\ pc = "ready"
    /\ cfg \in {EngineConfig("monthly", 3, equal_weight, Zero, Rat(1, 10), <<Rat(1, 2)>>) :
                    equal_weight \in BOOLEAN}
    /\ frame \in CallerFrames
    /\ prices = [s \in Symbols |-> 1]
    /\ as_of = 0
    /\ force = FALSE
    /\ holdings = [positions |-> NoPositions, cash |-> Zero]
    /\ signals = NoPositions
    /\ result = NoResult
    /\ first_call = <<>>
    /\ IdleRun
    /\ IdleRule
    /\ IdleServices

\* One evaluate call on the engine: the first call ("ready" -> "called"), a
\* call with other inputs ("called" -> "other"), or the first call repeated
\* ("called" or "other" -> "again").
Call ==
    /\ pc \in {"ready", "called", "other"}
    /\ \E inputs \in CallInputs :
        /\ pc = "other" => inputs = first_call[1].inputs
        /\ as_of' = inputs.as_of
        /\ force' = inputs.force
        /\ holdings' = inputs.holdings
        /\ signals' = SignalTable(prepare_frame(frame, inputs.as_of))
        /\ frame' = frame_after_call(frame, inputs.as_of)
        /\ result' = evaluate(cfg, as_of', holdings', signals', prices, force')
        /\ first_call' = IF pc = "ready"
                         THEN <<[inputs |-> inputs, frame |-> frame, cfg |-> cfg,
                                 result |-> result']>>
                         ELSE first_call
        /\ pc' = IF pc = "ready" THEN "called"
                 ELSE IF inputs = first_call[1].inputs THEN "again" ELSE "other"
    /\ UNCHANGED <<cfg, prices, run_vars, rule_vars, service_vars>>

NextTwice == Call

SpecTwice == InitTwice /\ [][NextTwice]_vars

(***************************************************************************)
(* RuleEvaluator (rules.py).  An expression is [text, tree]: its string    *)
(* and the tree ast.parse returns for it ([kind |-> "none"] when the       *)
(* string does not parse).  Nodes are records tagged by kind with the      *)
(* fields of the ast node.  eval_node yields "ok" or the message of the    *)
(* ValueError it raises; the values of the series are not represented.     *)
(***************************************************************************)
MaxDepth == 2
MaxRows == 1

BOOL_OPS == {"And", "Or"}
BIN_OPS == {"Add", "Sub", "Mult", "Div", "Mod", "Pow"}
CMP_OPS == {"Eq", "NotEq", "Lt", "LtE", "Gt", "GtE"}
UNARY_OPS == {"UAdd", "USub", "Not"}

NoTree == [kind |-> "none"]

\* The operators and leaves the expressions are drawn from: supported ones
\* and one unsupported one of each class (~x, a // b, a in b, f()).
AstUnaryOps == {"USub", "Not", "Invert"}
AstBinOps == {"Add", "FloorDiv"}
AstCmpOps == {"Lt", "In"}
AstLeaves ==
    {[kind |-> "Name", id |-> "close"], [kind |-> "Name", id |-> "ghost"],
     [kind |-> "Constant", value |-> 1], [kind |-> "Call"]}
AstChainLeaves == {[kind |-> "Name", id |-> "close"], [kind |-> "Call"]}

RECURSIVE Trees(_)
Trees(depth) ==
    IF depth = 0 THEN AstLeaves
    ELSE LET sub == Trees(depth - 1)
         IN  AstLeaves
             \cup [kind : {"UnaryOp"}, op : AstUnaryOps, operand : sub]
             \cup [kind : {"BinOp"}, op : AstBinOps, left : sub, right : AstLeaves]
             \cup {[kind |-> "BoolOp", op |-> op, values |-> <<first, second>>] :
                       op \in BOOL_OPS, first \in sub, second \in AstLeaves}
             \cup {[kind |-> "Compare", left |-> left, ops |-> <<op>>,
                     comparators |-> <<right>>] :
                       left \in sub, op \in AstCmpOps, right \in AstLeaves}
             \cup {[kind |-> "Compare", left |-> left, ops |-> <<op1, op2>>,
                     comparators |-> <<middle, right>>] :
                       left \in sub, op1 \in AstCmpOps, op2 \in AstCmpOps,
                       middle \in AstLeaves, right \in AstChainLeaves}

Rules ==
    [text : {"", "  ", "close >"}, tree : {NoTree}]
        \cup [text : {"expr"}, tree : Trees(MaxDepth)]

RuleFrames == [rows : 0..MaxRows, columns : {{"close"}}]

\* str.strip of the expression strings in use.
strip(text) == IF text = "  " THEN "" ELSE text

RECURSIVE validate(_)
validate(node) ==
    CASE node.kind = "BoolOp" ->
            /\ node.op \in BOOL_OPS
            /\ \A i \in 1..Len(node.values) : validate(node.values[i])
      [] node.kind = "BinOp" ->
            node.op \in BIN_OPS /\ validate(node.left) /\ validate(node.right)
      [] node.kind = "UnaryOp" ->
            node.op \in UNARY_OPS /\ validate(node.operand)
      [] node.kind = "Compare" ->
            /\ \A i \in 1..Len(node.comparators) : validate(node.comparators[i])
            /\ validate(node.left)
      [] node.kind \in {"Name", "Constant"} -> TRUE
      [] OTHER -> FALSE

\* RuleEvaluator.__init__ returns (does not raise).
rule_constructs(expression) ==
    /\ strip(expression.text) # ""
    /\ expression.tree # NoTree
    /\ validate(expression.tree)

\* The first error of a sequence of outcomes in evaluation order.
RECURSIVE FirstError(_)
FirstError(outcomes) ==
    IF outcomes = <<>> THEN "ok"
    ELSE IF Head(outcomes) # "ok" THEN Head(outcomes)
    ELSE FirstError(Tail(outcomes))

RECURSIVE eval_node(_, _)
RECURSIVE eval_compare(_, _, _, _)
eval_compare(ops, comparators, i, context) ==
    IF i > Len(ops) \/ i > Len(comparators) THEN "ok"
    ELSE IF ops[i] \notin CMP_OPS THEN "Unsupported comparator"
    ELSE FirstError(<<eval_node(comparators[i], context),
                      eval_compare(ops, comparators, i + 1, context)>>)

eval_node(node, context) ==
    CASE node.kind = "BoolOp" ->
            IF node.op \notin BOOL_OPS THEN "KeyError"
            ELSE FirstError([i \in 1..Len(node.values) |->
                                eval_node(node.values[i], context)])
      [] node.kind = "BinOp" ->
            FirstError(<<eval_node(node.left, context), eval_node(node.right, context),
                         IF node.op \in BIN_OPS THEN "ok" ELSE "Unsupported operator">>)
      [] node.kind = "UnaryOp" ->
            FirstError(<<eval_node(node.operand, context),
                         IF node.op \in UNARY_OPS THEN "ok"
                         ELSE "Unsupported unary operator">>)
      [] node.kind = "Compare" ->
            FirstError(<<eval_node(node.left, context),
                         eval_compare(node.ops, node.comparators, 1, context)>>)
      [] node.kind = "Name" ->
            IF node.id \in context THEN "ok" ELSE "Unknown identifier"
      [] node.kind = "Constant" -> "ok"
      [] OTHER -> "Unsupported expression segment"

\* RuleEvaluator.evaluate: an empty frame yields an empty series unevaluated.
rule_evaluate(expression, data) ==
    IF data.rows = 0 THEN "ok" ELSE eval_node(expression.tree, data.columns)

\* No rebalance call is in progress.
IdleCall ==
    /\ cfg = EngineConfig("monthly", 0, TRUE, Zero, Zero, <<>>)
    /\ as_of = 0
    /\ force = FALSE
    /\ holdings = [positions |-> NoPositions, cash |-> Zero]
    /\ signals = NoPositions
    /\ prices = [s \in Symbols |-> 0]
    /\ result = NoResult

InitRule ==
    /\ pc = "new"
    /\ rule \in Rules
    /\ rule_frame \in RuleFrames
    /\ rule_outcome = "none"
    /\ IdleCall
    /\ IdleRun
    /\ IdleCaller
    /\ IdleServices

\* RuleEvaluator(expression)
ConstructRule ==
    /\ pc = "new"
    /\ pc' = IF rule_constructs(rule) THEN "constructed" ELSE "rejected"
    /\ UNCHANGED <<call_vars, result, run_vars, rule_vars, caller_vars, service_vars>>

\* evaluator.evaluate(frame)
EvaluateRule ==
    /\ pc = "constructed"
    /\ rule_outcome' = rule_evaluate(rule, rule_frame)
    /\ pc' = "evaluated"
    /\ UNCHANGED <<call_vars, result, run_vars, rule, rule_frame, caller_vars,
                   service_vars>>

NextRule == ConstructRule \/ EvaluateRule

SpecRule == InitRule /\ [][NextRule]_vars

(***************************************************************************)
(* The values RuleEvaluator computes (rules.py; signals/__init__.py holds  *)
(* the same evaluator as _RuleEvaluator).  A frame is a sequence of rows,  *)
(* a row maps each column to an element: a number, NaN or a boolean.       *)
(* pandas works element by element, and so does element_value.  Of the     *)
(* arithmetic operators "+", "-" and "*" are represented.                  *)
(***************************************************************************)
NaN == [kind |-> "nan", v |-> 0]
Number(v) == [kind |-> "num", v |-> v]
Boolean(b) == [kind |-> "bool", v |-> IF b THEN 1 ELSE 0]

\* Series.astype(bool) on one element: NaN is not zero, so it casts to True.
astype_bool(value) == value.kind = "nan" \/ value.v # 0

BIN_SYMBOLS == [Add |-> "+", Sub |-> "-", Mult |-> "*"]
CMP_SYMBOLS ==
    [Eq |-> "==", NotEq |-> "!=", Lt |-> "<", LtE |-> "<=", Gt |-> ">", GtE |-> ">="]

apply_operator(symbol, left, right) ==
    LET unordered == left.kind = "nan" \/ right.kind = "nan"
    IN  CASE symbol = "+" -> IF unordered THEN NaN ELSE Number(left.v + right.v)
          [] symbol = "-" -> IF unordered THEN NaN ELSE Number(left.v - right.v)
          [] symbol = "*" -> IF unordered THEN NaN ELSE Number(left.v * right.v)
          [] symbol = "==" -> Boolean(~unordered /\ left.v = right.v)
          [] symbol = "!=" -> Boolean(unordered \/ left.v # right.v)
          [] symbol = "<" -> Boolean(~unordered /\ left.v < right.v)
          [] symbol = "<=" -> Boolean(~unordered /\ left.v <= right.v)
          [] symbol = ">" -> Boolean(~unordered /\ left.v > right.v)
          [] symbol = ">=" -> Boolean(~unordered /\ left.v >= right.v)

\* "&" and "|" of two boolean elements.
and_elements(left, right) == Boolean(left.v = 1 /\ right.v = 1)
or_elements(left, right) == Boolean(left.v = 1 \/ right.v = 1)

\* A chain that would compare every comparator with the first operand.
first_left(left, right) == left

\* The left operand of the next comparison of a chain: "left = right".
next_left(left, right) == right

RECURSIVE element_value(_, _)
RECURSIVE compare_elements(_, _, _, _, _, _)
compare_elements(left, ops, comparators, i, context, acc) ==
    IF i > Len(ops) \/ i > Len(comparators) THEN acc
    ELSE LET right == element_value(comparators[i], context)
             comparison == apply_operator(CMP_SYMBOLS[ops[i]], left, right)
         IN  compare_elements(next_left(left, right), ops, comparators, i + 1,
                              context, and_elements(acc, comparison))

RECURSIVE bool_elements(_, _, _, _, _)
bool_elements(op, values, i, context, acc) ==
    IF i > Len(values) THEN acc
    ELSE LET operand == element_value(values[i], context)
         IN  bool_elements(op, values, i + 1, context,
                           IF op = "And" THEN and_elements(acc, operand)
                           ELSE or_elements(acc, operand))

element_value(node, context) ==
    CASE node.kind = "BoolOp" ->
            bool_elements(node.op, node.values, 2, context,
                          element_value(node.values[1], context))
      [] node.kind = "BinOp" ->
            apply_operator(BIN_SYMBOLS[node.op], element_value(node.left, context),
                           element_value(node.right, context))
      [] node.kind = "UnaryOp" ->
            (LET operand == element_value(node.operand, context)
             IN  CASE node.op = "UAdd" -> operand
                   [] node.op = "USub" ->
                         IF operand.kind = "nan" THEN NaN ELSE Number(-operand.v)
                   [] node.op = "Not" -> Boolean(~astype_bool(operand)))
      [] node.kind = "Compare" ->
            compare_elements(element_value(node.left, context), node.ops,
                             node.comparators, 1, context, Boolean(TRUE))
      [] node.kind = "Name" -> context[node.id]
      [] node.kind = "Constant" -> Number(node.value)

\* evaluate: the boolean series of the expression over the rows of the frame
\* (the empty series for an empty frame).
rule_values(tree, data) ==
    [i \in 1..Len(data) |-> astype_bool(element_value(tree, data[i]))]

(***************************************************************************)
(* Chained comparisons over the numeric columns a, b and c.                *)
(***************************************************************************)
MaxChainRows == 2
ChainColumns == {"a", "b", "c"}
ChainElements == {NaN, Number(0), Number(1)}
ChainFrames == UNION {[1..n -> [ChainColumns -> ChainElements]] : n \in 0..MaxChainRows}
LongChainOps == {"LtE", "NotEq"}

Column(id) == [kind |-> "Name", id |-> id]
Compare(left, ops, comparators) ==
    [kind |-> "Compare", left |-> left, ops |-> ops, comparators |-> comparators]

\* a op1 b op2 c under every pair of comparators, and a op1 b op2 c op3 1.
ChainRules ==
    {Compare(Column("a"), <<op1, op2>>, <<Column("b"), Column("c")>>) :
         op1 \in CMP_OPS, op2 \in CMP_OPS}
    \cup {Compare(Column("a"), ops, <<Column("b"), Column("c"),
                                      [kind |-> "Constant", value |-> 1]>>) :
              ops \in [1..3 -> LongChainOps]}

\* The operands of a chain in order: its left operand, then its comparators.
Operands(node) == <<node.left>> \o node.comparators

\* (x1 op1 x2) and (x2 op2 x3) and ... as ast.parse returns it.
pairwise(node) ==
    [kind |-> "BoolOp", op |-> "And",
     values |-> [k \in 1..Len(node.ops) |->
                    Compare(Operands(node)[k], <<node.ops[k]>>,
                            <<Operands(node)[k + 1]>>)]]

InitChain ==
    /\ pc = "ready"
    /\ chain_rule \in ChainRules
    /\ chain_frame \in ChainFrames
    /\ chain_values = <<>>
    /\ IdleCall
    /\ IdleRun
    /\ IdleRule
    /\ IdleCaller
    /\ IdleStrategy
    /\ IdleRisk
    /\ IdlePipeline

\* RuleEvaluator(chain).evaluate(frame) and
\* RuleEvaluator(pairwise form).evaluate(frame)
EvaluateChain ==
    /\ pc = "ready"
    /\ chain_values' = [chained |-> rule_values(chain_rule, chain_frame),
                        pairwise |-> rule_values(pairwise(chain_rule), chain_frame)]
    /\ pc' = "compared"
    /\ UNCHANGED <<call_vars, result, run_vars, rule_vars, caller_vars,
                   chain_rule, chain_frame, strategy_vars, risk_vars, pipeline_vars>>

NextChain == EvaluateChain

SpecChain == InitChain /\ [][NextChain]_vars

(***************************************************************************)
(* StrategyEngine.evaluate (signals/__init__.py).  curated is the curated  *)
(* directory of the as_of date: [directory, files], files mapping each     *)
(* ticker to [present, rows], its parquet file.  A row is [date, close,    *)
(* sma_100, score]; the rank metric is the column "score".                 *)
(***************************************************************************)
StrategyTickers == <<"BBB", "CCC", "AAA">>
TickerSet == {StrategyTickers[i] : i \in 1..Len(StrategyTickers)}
MaxWindow == 1

NegativeInfinity == [kind |-> "-inf", v |-> 0]

\* x < y on floats that are numbers or -inf.
FloatLt(x, y) == y.kind # "-inf" /\ (x.kind = "-inf" \/ x.v < y.v)

Not(operand) == [kind |-> "UnaryOp", op |-> "Not", operand |-> operand]
EntryRules ==
    {Compare(Column("close"), <<"Gt">>, <<Column("sma_100")>>),
     [kind |-> "BinOp", op |-> "Sub", left |-> Column("close"),
      right |-> Column("sma_100")]}
ExitRules ==
    {Compare(Column("close"), <<"Lt">>, <<Column("sma_100")>>),
     Not(Compare(Column("close"), <<"GtE">>, <<Column("sma_100")>>))}
Strategies == [entry : EntryRules, exit : ExitRules, rank : {"score"}]

LatestRows ==
    [date : {2}, close : {Number(1)}, sma_100 : {NaN, Number(0), Number(2)},
     score : {NaN, Number(1), Number(2)}]
EarlierRows ==
    [date : {1}, close : {Number(1)}, sma_100 : {Number(0)}, score : {Number(2)}]
Datasets ==
    [present : {FALSE, TRUE}, rows : {<<>>}]
        \cup {[present |-> TRUE, rows |-> <<latest>>] : latest \in LatestRows}
        \cup {[present |-> TRUE, rows |-> <<latest, earlier>>] :
                  latest \in LatestRows, earlier \in EarlierRows}
        \cup {[present |-> TRUE, rows |-> <<earlier, latest>>] :
                  latest \in LatestRows, earlier \in EarlierRows}
\* The file of the last ticker is absent or holds one row of no NaN rule value.
SmallDatasets ==
    {d \in Datasets : ~d.present \/ (Len(d.rows) = 1 /\ d.rows[1].sma_100 = Number(0))}
CuratedDirectories ==
    [directory : {TRUE},
     files : {files \in [TickerSet -> Datasets] : files["CCC"] \in SmallDatasets}]
        \cup [directory : {FALSE},
              files : {[s \in TickerSet |-> [present |-> FALSE, rows |-> <<>>]]}]

\* data.sort_values("date")
sort_by_date(rows) == SortSeq(rows, LAMBDA x, y : x.date < y.date)

\* data.tail(n)
tail(rows, n) == IF n >= Len(rows) THEN rows ELSE SubSeq(rows, Len(rows) - n + 1, Len(rows))

\* The series handed over is the evaluator's, cast to bool: its elements are
\* True or False, and pd.isna is true of neither.
latest_bool(series) == IF series = <<>> THEN FALSE ELSE series[Len(series)]

latest_float(series) == IF series = <<>> THEN NaN ELSE series[Len(series)]

latest_rank_value(series) ==
    LET value == latest_float(series)
    IN  IF value.kind = "nan" THEN NegativeInfinity ELSE value

compute_rank_series(config, data) == [i \in 1..Len(data) |-> data[i][config.rank]]

\* frame.sort_values(["rank_score", "symbol"], ascending=[False, True])
RecordBefore(a, b) ==
    \/ FloatLt(b.rank_score, a.rank_score)
    \/ a.rank_score = b.rank_score /\ SymbolLt(a.symbol, b.symbol)

\* A sort that breaks ties of rank_score by symbol descending.
sort_records_ties_reversed(records) ==
    SortSeq(records, LAMBDA a, b : \/ FloatLt(b.rank_score, a.rank_score)
                                   \/ /\ a.rank_score = b.rank_score
                                      /\ SymbolLt(b.symbol, a.symbol))

sort_records(records) == SortSeq(records, RecordBefore)

\* The body of the loop over the tickers, for a ticker that is not skipped.
evaluate_symbol(config, symbol, dataset, tail_rows) ==
    LET sorted == sort_by_date(dataset.rows)
        data == IF tail_rows > 0 THEN tail(sorted, tail_rows) ELSE sorted
        entry_flag == latest_bool(rule_values(config.entry, data))
        exit_flag == latest_bool(rule_values(config.exit, data))
        rank_score == latest_rank_value(compute_rank_series(config, data))
    IN  [symbol |-> symbol,
         signal |-> IF exit_flag THEN "EXIT" ELSE IF entry_flag THEN "BUY" ELSE "HOLD",
         entry_rule |-> entry_flag,
         exit_rule |-> exit_flag,
         rank_score |-> rank_score]

NoStrategyResult ==
    [raised |-> TRUE, frame |-> <<>>, evaluations |-> <<>>, entry_count |-> 0,
     exit_count |-> 0]

strategy_evaluate(config, directory, tail_rows) ==
    IF ~directory.directory THEN NoStrategyResult
    ELSE LET evaluated == {s \in TickerSet : /\ directory.files[s].present
                                             /\ directory.files[s].rows # <<>>}
             evaluations == [s \in evaluated |->
                                evaluate_symbol(config, s, directory.files[s], tail_rows)]
             order == SortSymbols(evaluated)
             records == [i \in 1..Len(order) |->
                            [symbol |-> order[i],
                             signal |-> evaluations[order[i]].signal,
                             rank_score |-> evaluations[order[i]].rank_score]]
         IN  [raised |-> FALSE,
              frame |-> sort_records(records),
              evaluations |-> evaluations,
              entry_count |-> Cardinality({s \in evaluated : evaluations[s].entry_rule}),
              exit_count |-> Cardinality({s \in evaluated : evaluations[s].exit_rule})]

InitStrategy ==
    /\ pc = "ready"
    /\ curated \in CuratedDirectories
    /\ strategy \in Strategies
    /\ window \in 0..MaxWindow
    /\ strategy_result = <<>>
    /\ IdleCall
    /\ IdleRun
    /\ IdleRule
    /\ IdleCaller
    /\ IdleChain
    /\ IdleRisk
    /\ IdlePipeline

\* StrategyEngine.evaluate(as_of, window=window)
EvaluateStrategy ==
    /\ pc = "ready"
    /\ strategy_result' = strategy_evaluate(strategy, curated, window)
    /\ pc' = IF strategy_result'.raised THEN "failed" ELSE "evaluated"
    /\ UNCHANGED <<call_vars, result, run_vars, rule_vars, caller_vars, chain_vars,
                   curated, strategy, window, risk_vars, pipeline_vars>>

\* float(row.get("rank_score")) in the scores of the rebalancer: -inf lies
\* below every score.
ScoreOf(value) == IF value.kind = "-inf" THEN -(MaxScore + 1) ELSE value.v

\* The signals table the strategy frame is to the rebalancer.
FrameSignals(table) ==
    [s \in {table[i].symbol : i \in 1..Len(table)} |->
        LET at == CHOOSE i \in 1..Len(table) : table[i].symbol = s
        IN  [signal |-> table[at].signal, rank_score |-> ScoreOf(table[at].rank_score)]]

\* RebalanceEngine.evaluate on the frame of the strategy, at a month end, for a
\* portfolio of cash alone, under a position cap of 1 or 2.
Propose ==
    /\ pc = "evaluated"
    /\ \E max_positions \in 1..2, equal_weight \in BOOLEAN :
           cfg' = EngineConfig("monthly", max_positions, equal_weight, Zero, Zero, <<>>)
    /\ as_of' \in HitDate
    /\ force' = FALSE
    /\ holdings' = [positions |-> NoPositions, cash |-> RInt(10 * Lot)]
    /\ signals' = FrameSignals(strategy_result.frame)
    /\ prices' = [s \in Symbols |-> 1]
    /\ result' = evaluate(cfg', as_of', holdings', signals', prices', force')
    /\ pc' = "proposed"
    /\ UNCHANGED <<run_vars, rule_vars, caller_vars, service_vars>>

NextStrategy == EvaluateStrategy \/ Propose

SpecStrategy == InitStrategy /\ [][NextStrategy]_vars

(***************************************************************************)
(* RiskEngine.evaluate (risk/__init__.py).  curated is the curated         *)
(* directory of as_of, holding the file of the benchmark (rows [date,      *)
(* close, sma_200]) and of the held symbol (rows [date, close,             *)
(* rolling_peak, ret_1d], ret_1d in hundredths).  A float of the           *)
(* evaluation is NaN or [kind |-> "num", v |-> a rational].  None is <<>>, *)
(* an optional value v is <<v>>.                                           *)
(***************************************************************************)
RiskDay == 150
Benchmark == "SPY"
CrashThreshold == Rat(-5, 100)
DrawdownThreshold == Rat(-20, 100)

MarketRules ==
    {Compare(Column("close"), <<"Gt">>, <<Column("sma_200")>>),
     [kind |-> "BinOp", op |-> "Sub", left |-> Column("close"),
      right |-> Column("sma_200")]}
RiskConfigs ==
    [crash_threshold : {CrashThreshold}, drawdown_threshold : {DrawdownThreshold},
     market_filter : {<<>>} \cup {<<[benchmark |-> Benchmark, rule |-> r]>> :
                                      r \in MarketRules}]

BenchmarkRows ==
    [date : (RiskDay - 1)..(RiskDay + 1), close : {Number(1)},
     sma_200 : {NaN, Number(0), Number(2)}]
BenchmarkDatasets ==
    [present : {FALSE, TRUE}, rows : {<<>>}]
        \cup {[present |-> TRUE, rows |-> <<only>>] : only \in BenchmarkRows}
        \cup {[present |-> TRUE, rows |-> pair] :
                  pair \in {p \in [1..2 -> BenchmarkRows] : p[1].date # p[2].date}}
PositionRows ==
    {[date |-> RiskDay, close |-> level[1], rolling_peak |-> level[2], ret_1d |-> ret] :
         level \in {<<NaN, Number(5)>>, <<Number(1), Number(0)>>, <<Number(4), Number(5)>>,
                    <<Number(3), Number(5)>>, <<Number(5), Number(5)>>},
         ret \in {NaN, Number(-10), Number(-5), Number(0)}}
    \cup {[date |-> RiskDay + 1, close |-> Number(3), rolling_peak |-> Number(5),
           ret_1d |-> Number(-10)]}
PositionDatasets ==
    {[present |-> FALSE, rows |-> <<>>]}
        \cup {[present |-> TRUE, rows |-> <<only>>] : only \in PositionRows}
RiskDirectories ==
    {[directory |-> TRUE, files |-> [SPY |-> benchmark, AAA |-> held]] :
         benchmark \in BenchmarkDatasets, held \in PositionDatasets}
    \cup {[directory |-> FALSE,
           files |-> [SPY |-> [present |-> FALSE, rows |-> <<>>],
                      AAA |-> [present |-> FALSE, rows |-> <<>>]]]}
RiskHoldings ==
    {[positions |-> book, cash |-> Zero] : book \in {NoPositions, [s \in {"AAA"} |-> Lot]}}

\* _load_symbol_frame without "data = data[data["date"] <= as_of]".
load_symbol_frame_unfiltered(directory, symbol, day) ==
    IF directory.files[symbol].present THEN sort_by_date(directory.files[symbol].rows)
    ELSE <<>>

\* The rows of the frame, or <<>> for None: no frame returned is empty.
load_symbol_frame(directory, symbol, day) ==
    IF ~directory.files[symbol].present THEN <<>>
    ELSE SelectSeq(sort_by_date(directory.files[symbol].rows), LAMBDA r : r.date <= day)

evaluate_market_filter(config, directory, day) ==
    IF config.market_filter = <<>> THEN [market_state |-> "RISK_ON", passed |-> <<>>]
    ELSE LET data == load_symbol_frame(directory, config.market_filter[1].benchmark, day)
             series == rule_values(config.market_filter[1].rule, data)
             passed == IF series # <<>> THEN series[Len(series)] ELSE FALSE
         IN  IF data = <<>> THEN [market_state |-> "RISK_OFF", passed |-> <<>>]
             ELSE [market_state |-> IF passed THEN "RISK_ON" ELSE "RISK_OFF",
                   passed |-> <<passed>>]

compute_drawdown(close, peak) ==
    IF close.kind = "nan" \/ peak.kind = "nan" \/ peak.v = 0 THEN NaN
    ELSE [kind |-> "num", v |-> RSub(Rat(close.v, peak.v), One)]

is_triggered(value, threshold) == value.kind # "nan" /\ RLe(value.v, threshold)

\* The body of the loop over the positions, for a position with a frame.
evaluate_position(config, symbol, data) ==
    LET latest == data[Len(data)]
        return_1d == IF latest.ret_1d.kind = "nan" THEN NaN
                     ELSE [kind |-> "num", v |-> Rat(latest.ret_1d.v, 100)]
        decline == compute_drawdown(latest.close, latest.rolling_peak)
    IN  [symbol |-> symbol, daily_return |-> return_1d, drawdown |-> decline,
         crash_triggered |-> is_triggered(return_1d, config.crash_threshold),
         drawdown_triggered |-> is_triggered(decline, config.drawdown_threshold)]

\* The alerts of the positions in the order of the loop: by symbol, CRASH
\* before DRAWDOWN, which is also the order of the final sort.
RECURSIVE alerts_of(_, _)
alerts_of(order, evaluations) ==
    IF order = <<>> THEN <<>>
    ELSE LET symbol == Head(order)
             found == IF symbol \in DOMAIN evaluations
                      THEN (IF evaluations[symbol].crash_triggered
                            THEN <<[symbol |-> symbol, alert_type |-> "CRASH"]>> ELSE <<>>)
                           \o (IF evaluations[symbol].drawdown_triggered
                               THEN <<[symbol |-> symbol, alert_type |-> "DRAWDOWN"]>>
                               ELSE <<>>)
                      ELSE <<>>
         IN  found \o alerts_of(Tail(order), evaluations)

NoRiskResult ==
    [raised |-> TRUE, market_state |-> "", market_filter_pass |-> <<>>, alerts |-> <<>>,
     evaluations |-> <<>>]

risk_evaluate(config, directory, day, held_book) ==
    IF ~directory.directory THEN NoRiskResult
    ELSE LET held == DOMAIN held_book.positions
             framed == {s \in held : load_symbol_frame(directory, s, day) # <<>>}
             evaluations == [s \in framed |->
                                evaluate_position(config, s,
                                                  load_symbol_frame(directory, s, day))]
             market == evaluate_market_filter(config, directory, day)
         IN  [raised |-> FALSE,
              market_state |-> market.market_state,
              market_filter_pass |-> market.passed,
              alerts |-> alerts_of(SortSymbols(held), evaluations),
              evaluations |-> evaluations]

InitRisk ==
    /\ pc = "ready"
    /\ risk_cfg \in RiskConfigs
    /\ curated \in RiskDirectories
    /\ as_of = RiskDay
    /\ holdings \in RiskHoldings
    /\ risk_result = <<>>
    /\ cfg = EngineConfig("monthly", 0, TRUE, Zero, Zero, <<>>)
    /\ force = FALSE
    /\ signals = NoPositions
    /\ prices = [s \in Symbols |-> 0]
    /\ result = NoResult
    /\ strategy = <<>>
    /\ window = 0
    /\ strategy_result = <<>>
    /\ IdleRun
    /\ IdleRule
    /\ IdleCaller
    /\ IdleChain
    /\ IdlePipeline

\* RiskEngine.evaluate(as_of, holdings)
EvaluateRisk ==
    /\ pc = "ready"
    /\ risk_result' = risk_evaluate(risk_cfg, curated, as_of, holdings)
    /\ pc' = IF risk_result'.raised THEN "failed" ELSE "assessed"
    /\ UNCHANGED <<call_vars, result, run_vars, rule_vars, caller_vars, chain_vars,
                   strategy_vars, risk_cfg, pipeline_vars>>

NextRisk == EvaluateRisk

SpecRisk == InitRisk /\ [][NextRisk]_vars

(***************************************************************************)
(* _PipelineRunner.run (orchestrator.py).  pc is the step about to be      *)
(* executed, "failing" while the step error travels to the handler of      *)
(* run, "returning" after the last step, and "raised" or "returned" once   *)
(* run has ended.  A step function raises when its own checks say so and   *)
(* may raise whenever the engine it calls does.                            *)
(***************************************************************************)
StepNames ==
    {"data_pull", "data_preprocess", "signals_build", "risk_evaluate",
     "rebalance_propose", "report_build", "notify_send"}

\* include_signals, include_rebalance, force and dry_run of the runner, and
\* whether the curated directory of as_of is already populated.
Pipelines ==
    [include_signals : BOOLEAN, include_rebalance : BOOLEAN, force : BOOLEAN,
     dry_run : BOOLEAN, populated : BOOLEAN]

\* The statement of run that follows the named step.
following(name, config) ==
    CASE name = "data_pull" -> "data_preprocess"
      [] name = "data_preprocess" ->
            IF config.include_signals THEN "signals_build" ELSE "risk_evaluate"
      [] name = "signals_build" -> "risk_evaluate"
      [] name = "risk_evaluate" ->
            IF config.include_rebalance THEN "rebalance_propose" ELSE "report_build"
      [] name = "rebalance_propose" -> "report_build"
      [] name = "report_build" -> "notify_send"
      [] name = "notify_send" -> "returning"

\* The checks of the step functions that raise RuntimeError.
step_refuses(name, config, results) ==
    \/ name = "data_preprocess" /\ config.populated /\ ~config.force
    \/ name = "rebalance_propose" /\ "signals_build" \notin results
    \/ name = "notify_send" /\ "report_build" \notin results

\* A runner that carries on with the next step after a step has raised.
step_exit_ignoring_failure(name, raises, config) == following(name, config)

\* Where control goes when _execute_step ends: it re-raises the error of the
\* step as _PipelineStepError, which leaves the try block of run.
step_exit(name, raises, config) == IF raises THEN "failing" ELSE following(name, config)

PipelineStep(name, status) == [name |-> name, status |-> status]

InitPipeline ==
    /\ pc = "data_pull"
    /\ pipeline \in Pipelines
    /\ runner = [results |-> {}, error |-> <<>>]
    /\ steps = <<>>
    /\ manifest = [steps |-> <<>>, finalized |-> FALSE, success |-> FALSE]
    /\ run_outcome = <<>>
    /\ IdleCall
    /\ IdleRun
    /\ IdleRule
    /\ IdleCaller
    /\ IdleChain
    /\ IdleStrategy
    /\ IdleRisk

\* self._execute_step(name, steps, func)
ExecuteStep ==
    /\ pc \in StepNames
    /\ \E raises \in BOOLEAN :
        /\ step_refuses(pc, pipeline, runner.results) => raises
        /\ steps' = Append(steps, PipelineStep(pc, IF raises THEN "failed" ELSE "completed"))
        /\ manifest' = [manifest EXCEPT
                           !.steps = Append(@, PipelineStep(pc, IF raises THEN "failed"
                                                                ELSE "completed"))]
        /\ runner' = IF raises THEN [runner EXCEPT !.error = <<pc>>]
                     ELSE [runner EXCEPT !.results = @ \cup {pc}]
        /\ pc' = step_exit(pc, raises, pipeline)
    /\ UNCHANGED <<call_vars, result, run_vars, rule_vars, caller_vars, chain_vars,
                   strategy_vars, risk_vars, pipeline, run_outcome>>

\* except _PipelineStepError: finalize the manifest and raise
\* PipelineExecutionError.
FailRun ==
    /\ pc = "failing"
    /\ manifest' = [manifest EXCEPT !.finalized = TRUE, !.success = FALSE]
    /\ run_outcome' = [raised |-> TRUE, step |-> runner.error[1],
                       summary |-> [success |-> FALSE, steps |-> steps]]
    /\ pc' = "raised"
    /\ UNCHANGED <<call_vars, result, run_vars, rule_vars, caller_vars, chain_vars,
                   strategy_vars, risk_vars, pipeline, runner, steps>>

\* The end of run after the last step: finalize the manifest and return the
\* summary.
ReturnRun ==
    /\ pc = "returning"
    /\ manifest' = [manifest EXCEPT !.finalized = TRUE, !.success = TRUE]
    /\ run_outcome' = [raised |-> FALSE, step |-> "",
                       summary |-> [success |-> TRUE, steps |-> steps]]
    /\ pc' = "returned"
    /\ UNCHANGED <<call_vars, result, run_vars, rule_vars, caller_vars, chain_vars,
                   strategy_vars, risk_vars, pipeline, runner, steps>>

NextPipeline == ExecuteStep \/ FailRun \/ ReturnRun

SpecPipeline == InitPipeline /\ [][NextPipeline]_vars

\* run is straight-line code: once called it goes on until it returns or
\* raises.
SpecPipelineFair == SpecPipeline /\ WF_vars(NextPipeline)

(***************************************************************************)
(* Properties of RebalanceEngine.evaluate.                                 *)
(***************************************************************************)
HasCap == cfg.turnover_cap # <<>>
Cap == cfg.turnover_cap[1]

\* The call has returned a RebalanceResult (it has not raised).
Returned == pc = "done" /\ result.status # "RAISED"

\* The call went past the gate, the empty-frame exit, the price load and the
\* capacity exit, and built a proposal.
Proposed ==
    /\ Returned
    /\ CadenceGateOpen(as_of, cfg.cadence, force)
    /\ DOMAIN signals # {}
    /\ MaxAllowed(cfg) > 0

TargetSymbols == {result.targets[i].symbol : i \in 1..Len(result.targets)}
OrdersOf(symbol) == {i \in 1..Len(result.orders) : result.orders[i].symbol = symbol}
RemovedForCap ==
    {result.notes[i].symbol : i \in {k \in 1..Len(result.notes) :
         result.notes[k].text = "Removed to satisfy turnover cap"}}

\* C1: with a turnover cap configured, a result whose status is not
\* TURNOVER_LIMIT reports a turnover that is at most the cap.
C1_TurnoverWithinCap ==
    (Returned /\ HasCap /\ result.status # "TURNOVER_LIMIT")
        => RLe(result.turnover, Cap)

\* C1 witness: a REBALANCE result with orders, reached by dropping a candidate
\* for the cap.
C1_Witness ==
    /\ Returned /\ HasCap
    /\ result.status = "REBALANCE"
    /\ RemovedForCap # {}
    /\ result.orders # <<>>
    /\ RLt(Zero, result.turnover)

\* C2: every order of every result has side BUY or SELL, quantity > 0 and
\* notional >= 0.
C2_OrdersWellFormed ==
    pc = "done" =>
        \A i \in 1..Len(result.orders) :
            /\ result.orders[i].side \in {"BUY", "SELL"}
            /\ result.orders[i].quantity > 0
            /\ result.orders[i].notional >= 0

\* C4: in every result other than NO_CAPACITY, a target of nonzero weight has
\* a weight of at least min_weight.
C4_MinWeightFloor ==
    (Returned /\ result.status # "NO_CAPACITY") =>
        \A i \in 1..Len(result.targets) :
            result.targets[i].target_weight # Zero
                => RLe(cfg.min_weight, result.targets[i].target_weight)

\* C5: in every result other than NO_CAPACITY, the target weights sum to at
\* most 1 - cash_buffer.
C5_WeightsWithinBudget ==
    (Returned /\ result.status # "NO_CAPACITY") =>
        RLe(RSum([i \in 1..Len(result.targets) |-> result.targets[i].target_weight]),
            RSub(One, cfg.cash_buffer))

\* C5 witness: a score-weighted proposal of unequal weights rebuilt after
\* turnover-cap pruning.
C5_Witness ==
    /\ Returned /\ HasCap /\ ~cfg.equal_weight
    /\ result.status = "REBALANCE"
    /\ RemovedForCap # {}
    /\ \E i, j \in 1..Len(result.targets) :
           /\ RLt(Zero, result.targets[j].target_weight)
           /\ RLt(result.targets[j].target_weight, result.targets[i].target_weight)

\* C6: past the gate, with capacity and not turnover-limited, a held symbol
\* whose signal is EXIT has a target of weight 0 and exactly one order, a SELL
\* of the whole held quantity.
C6_ExitLiquidated ==
    (Proposed /\ result.status # "TURNOVER_LIMIT") =>
        \A s \in DOMAIN holdings.positions \cap DOMAIN signals :
            signals[s].signal = "EXIT" =>
                /\ \E i \in 1..Len(result.targets) :
                       /\ result.targets[i].symbol = s
                       /\ result.targets[i].target_weight = Zero
                /\ Cardinality(OrdersOf(s)) = 1
                /\ \A i \in OrdersOf(s) :
                       /\ result.orders[i].side = "SELL"
                       /\ result.orders[i].quantity = holdings.positions[s]

\* The selection before turnover-cap enforcement, and the proposal built when
\* the candidates whose symbol is in `dropped` are left out of it.
SelectedBefore == Selection(cfg, holdings, signals, prices).selected

ProposalWithout(dropped) ==
    ProposalFor(SelectSeq(SelectedBefore, LAMBDA c : c.symbol \notin dropped),
                cfg, holdings, signals, prices)

NotHeldSelected == {SelectedBefore[i].symbol : i \in {k \in 1..Len(SelectedBefore) :
                        ~SelectedBefore[k].is_existing}}

DroppedSelected == {SelectedBefore[i].symbol : i \in {k \in 1..Len(SelectedBefore) :
                        SelectedBefore[k].symbol \notin TargetSymbols}}

\* C8: in a REBALANCE result under a cap, every held candidate selected before
\* enforcement still has a target; the not-held candidates that were dropped
\* are the lowest-ranked ones; and the proposal with the last dropped
\* candidate still in it exceeded the cap.
C8_DropsLowestNewFirst ==
    (Proposed /\ HasCap /\ result.status = "REBALANCE") =>
        LET sel == SelectedBefore
            idx == 1..Len(sel)
            kept(i) == sel[i].symbol \in TargetSymbols
        IN  /\ \A i \in idx : sel[i].is_existing => kept(i)
            /\ \A i, j \in idx :
                   (i < j /\ ~sel[i].is_existing /\ ~sel[j].is_existing /\ kept(j))
                       => kept(i)
            /\ \A i \in idx :
                   (~kept(i) /\ \A j \in idx : j < i => (kept(j) \/ sel[j].is_existing))
                       => ExceedsCap(
                              ProposalWithout(DroppedSelected \ {sel[i].symbol}).turnover,
                              Cap)

\* C8 witness: a held candidate and a not-held candidate are kept while a
\* lower-ranked not-held candidate has been dropped.
C8_Witness ==
    /\ Proposed /\ HasCap /\ result.status = "REBALANCE"
    /\ \E i, j, k \in 1..Len(SelectedBefore) :
           /\ SelectedBefore[i].is_existing
           /\ ~SelectedBefore[j].is_existing /\ SelectedBefore[j].symbol \in TargetSymbols
           /\ j < k
           /\ ~SelectedBefore[k].is_existing /\ SelectedBefore[k].symbol \notin TargetSymbols
    /\ result.orders # <<>>

\* C9: the status is TURNOVER_LIMIT exactly when a cap is configured, the
\* initial proposal exceeds it and the proposal of the held candidates alone
\* still exceeds it; the result is then empty with turnover 0.
C9_TurnoverLimitExactly ==
    /\ (pc = "done" /\ ~Proposed) => result.status # "TURNOVER_LIMIT"
    /\ Proposed =>
        /\ (result.status = "TURNOVER_LIMIT") <=>
               /\ HasCap
               /\ ExceedsCap(ProposalWithout({}).turnover, Cap)
               /\ ExceedsCap(ProposalWithout(NotHeldSelected).turnover, Cap)
        /\ result.status = "TURNOVER_LIMIT" =>
               /\ result.targets = <<>>
               /\ result.orders = <<>>
               /\ result.turnover = Zero

\* C9 witness: a held candidate and a not-held candidate were selected, and
\* the proposal of the held one alone still exceeds the cap.
C9_Witness ==
    /\ Proposed /\ HasCap
    /\ result.status = "TURNOVER_LIMIT"
    /\ NotHeldSelected # {}
    /\ \E i \in 1..Len(SelectedBefore) : SelectedBefore[i].is_existing
    /\ ProposalWithout(NotHeldSelected).orders # <<>>

\* The last business day of a month; the cadence days as the configuration
\* documents them.
LastBusinessDayOfMonth(day) ==
    /\ IsBusinessDay(day)
    /\ \E e \in MonthEnds : e >= day /\ \A l \in (day + 1)..e : ~IsBusinessDay(l)

CadenceDay(day, cadence) ==
    \/ cadence = "monthly" /\ LastBusinessDayOfMonth(day)
    \/ cadence = "weekly" /\ day % 7 = 4

\* C10: with cadence monthly or weekly the status is NO_REBALANCE exactly when
\* force is false and as_of is not a cadence day; the call then returns the
\* empty result with the cadence note and does not raise.
C10_CadenceGate ==
    (pc = "done" /\ cfg.cadence \in {"monthly", "weekly"}) =>
        /\ (result.status = "NO_REBALANCE") <=> (~force /\ ~CadenceDay(as_of, cfg.cadence))
        /\ (~force /\ ~CadenceDay(as_of, cfg.cadence)) =>
               result = Result("NO_REBALANCE", Zero, <<>>, <<>>,
                               <<Note("Cadence not met", "")>>)

\* C10 witness: a cadence miss returned although a held symbol has no usable
\* price and the portfolio is worth nothing.
C10_Witness ==
    /\ pc = "done"
    /\ result.status = "NO_REBALANCE"
    /\ ~force
    /\ \E s \in DOMAIN holdings.positions : prices[s] = 0
    /\ \E s \in Symbols \ DOMAIN signals : TRUE

\* The held symbols whose row today is EXIT.
HeldExits ==
    {s \in DOMAIN holdings.positions \cap DOMAIN signals : signals[s].signal = "EXIT"}

\* The call went past the cadence gate with rows for the date and with a
\* usable price for every symbol it prices.
PricedPastGate ==
    /\ pc = "done"
    /\ CadenceGateOpen(as_of, cfg.cadence, force)
    /\ DOMAIN signals # {}
    /\ ~PriceLoadFails(prices, NeededSymbols(holdings, signals))

\* floor((1 - cash_buffer) / min_weight), exactly.
FloorOfBudgetOverMinWeight ==
    Fixed(RSub(One, cfg.cash_buffer)) \div Fixed(cfg.min_weight)

\* The allowable position count is 0: max_positions <= 0 or
\* floor((1 - cash_buffer) / min_weight) = 0.
AllowableCountIsZero ==
    \/ cfg.max_positions <= 0
    \/ RLt(Zero, cfg.min_weight) /\ FloorOfBudgetOverMinWeight = 0

\* C11: when the allowable position count is 0 and there are signals, the
\* call does not raise and returns NO_CAPACITY with no targets and exactly
\* one SELL order, of the full held quantity, per held EXIT symbol of nonzero
\* quantity; no other symbol gets an order.
C11_NoCapacityExitsOnly ==
    (PricedPastGate /\ AllowableCountIsZero) =>
        /\ result.status = "NO_CAPACITY"
        /\ result.targets = <<>>
        /\ \A i \in 1..Len(result.orders) : result.orders[i].symbol \in HeldExits
        /\ \A s \in HeldExits :
               holdings.positions[s] # 0 =>
                   /\ Cardinality(OrdersOf(s)) = 1
                   /\ \A i \in OrdersOf(s) :
                          /\ result.orders[i].side = "SELL"
                          /\ result.orders[i].quantity = holdings.positions[s]

\* C11 witness: both ways of having no capacity are covered by the states
\* where a held EXIT symbol is sold while another held symbol is kept.
C11_Witness ==
    /\ PricedPastGate /\ MaxAllowed(cfg) = 0
    /\ result.status = "NO_CAPACITY"
    /\ cfg.max_positions > 0
    /\ HeldExits # {}
    /\ DOMAIN holdings.positions \ HeldExits # {}
    /\ Len(result.orders) = Cardinality(HeldExits)

\* A row qualifies as a candidate when it is not EXIT, its symbol has a price
\* and, in score-weighted mode, its score is positive or its symbol is held.
Qualifies(s) ==
    /\ signals[s].signal # "EXIT"
    /\ prices[s] > 0
    /\ cfg.equal_weight \/ signals[s].rank_score > 0 \/ s \in DOMAIN holdings.positions

\* C12: whenever the call passes the cadence gate and no row qualifies as a
\* candidate, the status is NO_CANDIDATES.
C12_NoCandidatesStatus ==
    (pc = "done" /\ CadenceGateOpen(as_of, cfg.cadence, force)
        /\ \A s \in DOMAIN signals : ~Qualifies(s))
        => result.status = "NO_CANDIDATES"

\* C13: an engine exists only with cadence monthly or weekly, so no evaluate
\* call, forced or not, fails or runs on an unsupported cadence.
C13_CadenceCheckedAtConstruction ==
    /\ pc = "ready" => cfg.cadence \in {"monthly", "weekly"}
    /\ pc = "done" => cfg.cadence \in {"monthly", "weekly"}

\* The grammar of rule expressions: names, constants, unary + - not, binary
\* + - * / % **, and / or, comparisons == != < <= > >=.
RECURSIVE InGrammar(_)
InGrammar(node) ==
    CASE node.kind \in {"Name", "Constant"} -> TRUE
      [] node.kind = "UnaryOp" ->
            node.op \in {"UAdd", "USub", "Not"} /\ InGrammar(node.operand)
      [] node.kind = "BinOp" ->
            /\ node.op \in {"Add", "Sub", "Mult", "Div", "Mod", "Pow"}
            /\ InGrammar(node.left) /\ InGrammar(node.right)
      [] node.kind = "BoolOp" ->
            /\ node.op \in {"And", "Or"}
            /\ \A i \in 1..Len(node.values) : InGrammar(node.values[i])
      [] node.kind = "Compare" ->
            /\ \A i \in 1..Len(node.ops) :
                   node.ops[i] \in {"Eq", "NotEq", "Lt", "LtE", "Gt", "GtE"}
            /\ InGrammar(node.left)
            /\ \A i \in 1..Len(node.comparators) : InGrammar(node.comparators[i])
      [] OTHER -> FALSE

UnpricedNewSymbols ==
    {s \in DOMAIN signals \ DOMAIN holdings.positions : prices[s] <= 0}

\* C19: when a signalled symbol that is not held has no available price (all
\* held symbols are priced and the portfolio has cash), evaluate does not
\* fail and gives that symbol no target and no order.
C19_MissingPriceExcluded ==
    (/\ pc = "done"
     /\ cfg.cadence \in {"monthly", "weekly"}
     /\ CadenceGateOpen(as_of, cfg.cadence, force)
     /\ UnpricedNewSymbols # {}
     /\ \A s \in DOMAIN holdings.positions : prices[s] > 0
     /\ RLt(Zero, holdings.cash)) =>
        /\ result.status # "RAISED"
        /\ \A s \in UnpricedNewSymbols :
               /\ \A i \in 1..Len(result.targets) : result.targets[i].symbol # s
               /\ \A i \in 1..Len(result.orders) : result.orders[i].symbol # s

\* The signalled symbols that are not held and have a non-positive score.
UnscoredNewSymbols ==
    {s \in DOMAIN signals \ DOMAIN holdings.positions : signals[s].rank_score <= 0}

\* C20: with equal_weight false no result holds a positive target weight or
\* a BUY order for a symbol that is not held and whose rank_score is <= 0.
C20_NoNewPositionOnNonPositiveScore ==
    (pc = "done" /\ ~cfg.equal_weight) =>
        \A s \in UnscoredNewSymbols :
            /\ \A i \in 1..Len(result.targets) :
                   result.targets[i].symbol = s =>
                       ~RLt(Zero, result.targets[i].target_weight)
            /\ \A i \in 1..Len(result.orders) :
                   result.orders[i].symbol = s => result.orders[i].side # "BUY"

\* C20 witness: a score-weighted proposal that buys a new symbol while a
\* priced, not-held BUY row of score 0 gets nothing.
C20_Witness ==
    /\ pc = "done"
    /\ ~cfg.equal_weight
    /\ result.status = "REBALANCE"
    /\ \E s \in UnscoredNewSymbols : signals[s].signal = "BUY" /\ prices[s] > 0
    /\ \E i \in 1..Len(result.orders) :
           /\ result.orders[i].side = "BUY"
           /\ result.orders[i].symbol \notin DOMAIN holdings.positions

\* The targets of the result that come from selected candidates.
AllocatedTargets ==
    {i \in 1..Len(result.targets) :
         result.targets[i].rationale # "Exit signal triggered"}

\* max(rank_score, 0) of today's row of a symbol.
ClampedScore(symbol) ==
    IF signals[symbol].rank_score > 0 THEN signals[symbol].rank_score ELSE 0

RECURSIVE ClampedScoreSum(_)
ClampedScoreSum(S) ==
    IF S = {} THEN 0
    ELSE LET s == CHOOSE x \in S : TRUE
         IN  ClampedScore(s) + ClampedScoreSum(S \ {s})

\* C25: with n >= 1 selected candidates and available weight 1 - cash_buffer,
\* every candidate's target weight is available/n under equal weighting, for
\* n = 1, or when the clamped scores sum to <= 0, and otherwise
\* available * max(score, 0) / sum of max(score, 0); two candidates under
\* equal weighting with cash_buffer 0.05 get 0.475 each.
C25_TargetWeights ==
    /\ (Proposed /\ result.status = "REBALANCE") =>
           LET n == Cardinality(AllocatedTargets)
               available == RSub(One, cfg.cash_buffer)
               total == ClampedScoreSum({result.targets[i].symbol : i \in AllocatedTargets})
           IN  \A i \in AllocatedTargets :
                   LET weight == result.targets[i].target_weight
                       score == ClampedScore(result.targets[i].symbol)
                   IN  IF cfg.equal_weight \/ n = 1 \/ total <= 0
                       THEN weight.n * available.d * n = available.n * weight.d
                       ELSE weight.n * available.d * total
                                = available.n * score * weight.d
    /\ pc = "done" =>
           compute_weights(<<[symbol |-> "AAA", rank_score |-> 1],
                             [symbol |-> "BBB", rank_score |-> 1]>>,
                           AvailableWeight([cfg EXCEPT !.cash_buffer = Rat(1, 20)]),
                           TRUE)
               = <<Rat(19, 40), Rat(19, 40)>>

\* C25 witness: three candidates allocated by score, one of them a held
\* symbol of score 0, the other two in the ratio of their scores.
C25_Witness ==
    /\ Proposed /\ ~cfg.equal_weight
    /\ result.status = "REBALANCE"
    /\ Cardinality(AllocatedTargets) = 3
    /\ \E i, j, k \in AllocatedTargets :
           /\ result.targets[k].target_weight = Zero
           /\ RLt(Zero, result.targets[j].target_weight)
           /\ result.targets[i].target_weight
                  = RMul(RInt(2), result.targets[j].target_weight)

\* The targets of the result with a positive weight.
PositiveTargets ==
    {i \in 1..Len(result.targets) : RLt(Zero, result.targets[i].target_weight)}

\* C26: in every result the number of targets of positive weight is at most
\* max_positions and, when min_weight > 0, at most
\* floor((1 - cash_buffer) / min_weight).
C26_PositionCountBounded ==
    Returned =>
        /\ Cardinality(PositiveTargets) <= cfg.max_positions
        /\ RLt(Zero, cfg.min_weight) =>
               Cardinality(PositiveTargets) <= FloorOfBudgetOverMinWeight

\* The held symbols of nonzero quantity that the result gives no target.
HeldWithoutTarget ==
    {s \in DOMAIN holdings.positions :
         holdings.positions[s] # 0 /\ s \notin TargetSymbols}

\* Half the sum of |target weight - current weight| over the held and the
\* targeted symbols, a symbol without a target counting as weight 0.
WeightDrift ==
    LET total_value == TotalValue(holdings.positions, holdings.cash, prices)
        symbols == SortSymbols(DOMAIN holdings.positions \cup TargetSymbols)
    IN  RMul(Half,
             RSum([i \in 1..Len(symbols) |->
                      RAbs(RSub(TargetWeightOf(result.targets, symbols[i]),
                                CurrentWeight(holdings.positions, prices, total_value,
                                              symbols[i])))]))

\* C29: on the normal path (gate passed, capacity > 0, proposal not discarded
\* for the cap) a held symbol that ends up without a target gets exactly one
\* order, a SELL of its entire held quantity, whatever its signal, and its
\* weight change is counted in the turnover.
C29_UntargetedHoldingLiquidated ==
    (Proposed /\ result.status # "TURNOVER_LIMIT") =>
        /\ \A s \in HeldWithoutTarget :
               /\ Cardinality(OrdersOf(s)) = 1
               /\ \A i \in OrdersOf(s) :
                      /\ result.orders[i].side = "SELL"
                      /\ result.orders[i].quantity = holdings.positions[s]
        /\ result.turnover = WeightDrift

\* C30: for every status, a result holding at least one order reports a
\* turnover > 0, and a result reporting turnover 0 holds no order.
C30_TurnoverAccountsForOrders ==
    Returned =>
        /\ result.orders # <<>> => RLt(Zero, result.turnover)
        /\ result.turnover = Zero => result.orders = <<>>

\* C14: construction fails for an empty string and for every expression
\* with a node or operator outside the grammar, so an expression accepted
\* at construction never fails at evaluation with an unsupported-operator
\* or unsupported-comparator error.
C14_ValidationComplete ==
    /\ pc \in {"constructed", "evaluated"} =>
           strip(rule.text) # "" /\ InGrammar(rule.tree)
    /\ pc = "evaluated" =>
           rule_outcome \notin {"Unsupported operator", "Unsupported comparator",
                                "Unsupported unary operator"}

(***************************************************************************)
(* Properties of BacktestEngine.run.                                       *)
(***************************************************************************)
TradeIdx == 1..Len(day_trades)

\* The cash a trade of quantity q at price p moves, before commission.
TradeGross(trade) ==
    RMul(RInt(trade.quantity),
         FillPrice(trade.side, trade.price, backtest_cfg.slippage_pct))

\* C3: every executed trade moves the ledger in the direction of its side: a
\* BUY of quantity q lowers cash by q*p*(1+slippage_pct) + commission and
\* raises the held quantity by q; a SELL raises cash by q*p*(1-slippage_pct)
\* - commission and lowers the held quantity by q; no SELL increases the held
\* quantity of its symbol.
C3_TradeFollowsSide ==
    \A i \in TradeIdx :
        LET trade == day_trades[i]
            commission == backtest_cfg.commission_per_trade
        IN  /\ trade.side = "BUY" =>
                   /\ trade.cash_after
                          = RSub(trade.cash_before, RAdd(TradeGross(trade), commission))
                   /\ trade.qty_after = trade.qty_before + trade.quantity
                   /\ trade.qty_after > trade.qty_before
            /\ trade.side = "SELL" =>
                   /\ trade.cash_after
                          = RAdd(trade.cash_before, RSub(TradeGross(trade), commission))
                   /\ trade.qty_after = trade.qty_before - trade.quantity
                   /\ trade.qty_after < trade.qty_before

\* C15: every day of the run is evaluated with force exactly when the
\* portfolio has no position at the start of the day; a day that starts with
\* a position and is not a cadence day executes no trade and leaves cash and
\* positions unchanged.
C15_ForcedOnlyWhenFlat ==
    [][(pc = "running" /\ as_of <= run_end) =>
          /\ force' = (DOMAIN state.positions = {})
          /\ (DOMAIN state.positions # {} /\ ~CadenceDay(as_of, cfg.cadence)) =>
                 /\ day_trades' = <<>>
                 /\ state' = state
                 /\ totals' = totals]_vars

\* C15 witness: the second day of a run started with a position on a day
\* off the cadence and was evaluated unforced.
C15_Witness ==
    /\ pc = "running"
    /\ Len(equity_curve) = 2
    /\ ~force
    /\ DOMAIN holdings.positions # {}
    /\ result.status = "NO_REBALANCE"
    /\ day_trades = <<>>
    /\ holdings = snapshot(state)

\* C16: in a window where every signal is HOLD (prices flat) the run never
\* trades and the equity of every day is the initial cash; stated for the
\* first day of the window, before which no price has moved.
C16_AllHoldNeverTrades ==
    (/\ pc = "running"
     /\ Len(equity_curve) = 1
     /\ \A s \in DOMAIN signals : signals[s].signal = "HOLD") =>
        /\ day_trades = <<>>
        /\ totals.trades_executed = 0
        /\ DOMAIN state.positions = {}
        /\ equity_curve[1] = backtest_cfg.initial_cash

C7_SlippageIsAdverse ==
    \A i \in TradeIdx :
        LET trade == day_trades[i]
        IN  /\ RLe(Zero, trade.slippage_cost)
            /\ RLe(RAdd(trade.cash_after, RInt(trade.qty_after * trade.price)),
                   RAdd(trade.cash_before, RInt(trade.qty_before * trade.price)))

(***************************************************************************)
(* Properties of the rule evaluator's values.                              *)
(***************************************************************************)
\* The comparison of two elements of numeric columns, as arithmetic has it:
\* NaN is unequal to everything and in no order with anything.
Holds(op, x, y) ==
    LET numbers == x.kind = "num" /\ y.kind = "num"
    IN  CASE op = "Eq" -> numbers /\ x.v = y.v
          [] op = "NotEq" -> ~(numbers /\ x.v = y.v)
          [] op = "Lt" -> numbers /\ x.v < y.v
          [] op = "LtE" -> numbers /\ x.v <= y.v
          [] op = "Gt" -> numbers /\ x.v > y.v
          [] op = "GtE" -> numbers /\ x.v >= y.v

\* The k-th operand of the chain in row r of the frame.
ChainOperand(k, r) ==
    LET node == Operands(chain_rule)[k]
    IN  IF node.kind = "Name" THEN chain_frame[r][node.id] ELSE Number(node.value)

LinkHolds(k, r) == Holds(chain_rule.ops[k], ChainOperand(k, r), ChainOperand(k + 1, r))

\* C23: a chained comparison evaluates, in every row, to the same value as
\* the "and" of its pairwise comparisons: it is true exactly in the rows
\* where every neighbouring pair of operands, left to right, compares true.
C23_ChainIsPairwiseAnd ==
    pc = "compared" =>
        /\ chain_values.chained = chain_values.pairwise
        /\ \A r \in 1..Len(chain_frame) :
               chain_values.chained[r] = (\A k \in 1..Len(chain_rule.ops) : LinkHolds(k, r))

\* A chain of two different comparators that is true in the first row and, in
\* the second row, false only because of its second link, which would hold
\* between the first and the last operand.
C23_Witness ==
    /\ pc = "compared"
    /\ Len(chain_frame) = 2
    /\ Len(chain_rule.ops) = 2
    /\ chain_rule.ops[1] # chain_rule.ops[2]
    /\ chain_values.chained[1]
    /\ ~chain_values.chained[2]
    /\ LinkHolds(1, 2)
    /\ ~LinkHolds(2, 2)
    /\ Holds(chain_rule.ops[2], ChainOperand(1, 2), ChainOperand(3, 2))

(***************************************************************************)
(* Properties of StrategyEngine.evaluate.                                  *)
(***************************************************************************)
\* The tickers the evaluation does not skip, and the most recent row of each.
EvaluatedTickers ==
    {s \in TickerSet : curated.files[s].present /\ curated.files[s].rows # <<>>}
LatestRow(s) ==
    CHOOSE r \in SeqRange(curated.files[s].rows) :
        \A o \in SeqRange(curated.files[s].rows) : o.date <= r.date

\* The rule is true on the row: its value there is neither NaN nor false/zero.
RuleTrue(tree, data_row) ==
    LET value == element_value(tree, data_row)
    IN  value.kind # "nan" /\ value.v # 0

\* C21: every evaluated symbol's signal is EXIT when the exit rule is true on
\* its latest row, else BUY when the entry rule is true, else HOLD, a NaN
\* rule value counting as false; entry_count and exit_count are the numbers
\* of evaluated symbols whose entry, respectively exit, rule is true.
C21_SignalClassification ==
    pc = "evaluated" =>
        /\ DOMAIN strategy_result.evaluations = EvaluatedTickers
        /\ \A s \in EvaluatedTickers :
               strategy_result.evaluations[s].signal =
                   IF RuleTrue(strategy.exit, LatestRow(s)) THEN "EXIT"
                   ELSE IF RuleTrue(strategy.entry, LatestRow(s)) THEN "BUY"
                   ELSE "HOLD"
        /\ strategy_result.entry_count =
               Cardinality({s \in EvaluatedTickers : RuleTrue(strategy.entry, LatestRow(s))})
        /\ strategy_result.exit_count =
               Cardinality({s \in EvaluatedTickers : RuleTrue(strategy.exit, LatestRow(s))})

\* The rank of an evaluated ticker: the rank metric on its latest row.
RawRank(s) == LatestRow(s)[strategy.rank]

\* a is ranked before b: by rank descending (no rank at all is the lowest
\* rank), then by symbol ascending.
RankedBefore(a, b) ==
    \/ RawRank(b).kind = "nan" /\ RawRank(a).kind # "nan"
    \/ RawRank(a).kind # "nan" /\ RawRank(b).kind # "nan" /\ RawRank(a).v > RawRank(b).v
    \/ RawRank(a) = RawRank(b) /\ SymbolLt(a, b)

\* The candidates of the rebalancer for a portfolio without positions.
RankedCandidates ==
    {s \in EvaluatedTickers :
        /\ strategy_result.evaluations[s].signal # "EXIT"
        /\ cfg.equal_weight \/ (RawRank(s).kind # "nan" /\ RawRank(s).v > 0)}

\* C27: the strategy's signal table lists the evaluated symbols by rank_score
\* descending, then symbol ascending, and under a position cap of k the
\* rebalancer's positive targets are exactly the first k candidates of that
\* order.
C27_RankingDeterministic ==
    /\ pc \in {"evaluated", "proposed"} =>
           LET table == strategy_result.frame
           IN  /\ Len(table) = Cardinality(EvaluatedTickers)
               /\ {table[i].symbol : i \in 1..Len(table)} = EvaluatedTickers
               /\ \A i, j \in 1..Len(table) :
                      i < j => RankedBefore(table[i].symbol, table[j].symbol)
    /\ pc = "proposed" =>
           {result.targets[i].symbol : i \in PositiveTargets} =
               {s \in RankedCandidates :
                   Cardinality({o \in RankedCandidates : RankedBefore(o, s)})
                       < cfg.max_positions}

\* Three candidates of equal score under a cap of 2: the alphabetically last
\* one is dropped.
C27_Witness ==
    /\ pc = "proposed"
    /\ cfg.max_positions = 2
    /\ RankedCandidates = TickerSet
    /\ \A s \in TickerSet : RawRank(s) = Number(1)
    /\ {result.targets[i].symbol : i \in PositiveTargets} = {"AAA", "BBB"}
    /\ strategy_result.frame[1].symbol = "AAA"
    /\ strategy_result.frame[3].symbol = "CCC"

(***************************************************************************)
(* Properties of RiskEngine.evaluate.                                      *)
(***************************************************************************)
FilterConfigured == risk_cfg.market_filter # <<>>

\* The rows of the benchmark file dated as_of or earlier.
BenchmarkHistory ==
    {r \in SeqRange(curated.files[Benchmark].rows) :
        curated.files[Benchmark].present /\ r.date <= as_of}
LatestBenchmarkRow == CHOOSE r \in BenchmarkHistory : \A o \in BenchmarkHistory : o.date <= r.date

\* The benchmark rule holds on the latest row: its value there casts to True.
BenchmarkRuleTrue ==
    astype_bool(element_value(risk_cfg.market_filter[1].rule, LatestBenchmarkRow))

FixedOrder ==
    SelectSeq(<<"data_pull", "data_preprocess", "signals_build", "risk_evaluate",
                "rebalance_propose", "report_build", "notify_send">>,
              LAMBDA name : /\ name = "signals_build" => pipeline.include_signals
                            /\ name = "rebalance_propose" => pipeline.include_rebalance)

StepFailed == steps # <<>> /\ steps[Len(steps)].status = "failed"

\* The recorded steps are a prefix of the fixed order, completed but for a
\* failed last one; a failed step ends the run, which then raises
\* PipelineExecutionError for that step with an unsuccessful summary, the
\* manifest being finalized as unsuccessful.
StepsRecordedInOrder ==
    /\ Len(steps) <= Len(FixedOrder)
    /\ \A i \in 1..Len(steps) : steps[i].name = FixedOrder[i]
    /\ \A i \in 1..(Len(steps) - 1) : steps[i].status = "completed"
    /\ manifest.steps = steps
    /\ StepFailed <=> pc \in {"failing", "raised"}
    /\ pc = "raised" =>
           /\ manifest.finalized
           /\ ~manifest.success
           /\ run_outcome.raised
           /\ run_outcome.step = steps[Len(steps)].name
           /\ ~run_outcome.summary.success
           /\ run_outcome.summary.steps = steps

\* C24: the steps run in the fixed order data_pull, data_preprocess,
\* [signals_build], risk_evaluate, [rebalance_propose], report_build,
\* notify_send; once a step has raised no further step is executed, the
\* recorded steps are the completed prefix and the one failed step, and the
\* run ends by finalizing the manifest with success = false and raising
\* PipelineExecutionError with the failing step's name and a summary with
\* success = false.
C24_FailureStopsPipeline ==
    /\ []StepsRecordedInOrder
    /\ [][StepFailed => steps' = steps]_vars
    /\ StepFailed ~> (pc = "raised")

\* The risk step failed after three completed steps, and the run has raised.
C24_Witness ==
    /\ pc = "raised"
    /\ Len(steps) = 4
    /\ run_outcome.step = "risk_evaluate"
    /\ pipeline.include_rebalance

(***************************************************************************)
(* The portfolio of a backtest after a rebalance.                          *)
(***************************************************************************)
\* The last simulated day executed the orders of a REBALANCE result at no
\* cost: neither slippage nor commission.
RebalancedAtNoCost ==
    /\ pc \in {"running", "finished"}
    /\ result.status = "REBALANCE"
    /\ backtest_cfg.slippage_pct = Zero
    /\ backtest_cfg.commission_per_trade = Zero

\* C28: in a backtest without slippage and commission, once the orders of a
\* REBALANCE result are executed every symbol with a positive target weight
\* is held at target_weight * total value / price, to within one unit of
\* quantity rounding, and no other symbol is held any more.
C28_PortfolioMatchesProposal ==
    RebalancedAtNoCost =>
        LET total_value == TotalValue(holdings.positions, holdings.cash, prices)
        IN  \A s \in DOMAIN holdings.positions \cup DOMAIN state.positions \cup TargetSymbols :
                LET weight == TargetWeightOf(result.targets, s)
                    held_qty == CurrentQty(state.positions, s)
                IN  IF RLt(Zero, weight)
                    THEN RLe(RAbs(RSub(RInt(held_qty),
                                       RDiv(RMul(weight, total_value), RInt(prices[s])))),
                             One)
                    ELSE held_qty = 0

====
